---- MODULE Spec2Model ----
(***************************************************************************)
(* Model of the workflow engine of logichammer/ccc:                        *)
(*   - WorkflowExecutor   (src/bin/lib/workflow_executor.py)               *)
(*   - WorkflowValidator  (src/bin/lib/workflow_validator.py)              *)
(* A workflow is the WorkflowDefinition the parser returns; the executor   *)
(* and the validator read it and never write it.                           *)
(***************************************************************************)
EXTENDS Integers, Sequences, FiniteSets, TLC

VARIABLES
    \* ---- inputs of one call ----
    workflow,           \* the WorkflowDefinition parse_suggested returns
    file,               \* the workflow path: "ok", "missing" or "malformed"
    dry_run,            \* argument of execute_workflow
    error_handling,     \* exec_config.get('error_handling', 'retry')
    max_retries,        \* exec_config.get('max_retries', 3)
    registry,           \* _discover_available_agents(): agents/*Agent.json
    verified_agents,    \* agents whose JSON file loads to a non-empty object
    client_dir_exists,  \* seo-projects/<client_slug>/inputs exists
    \* ---- WorkflowExecutor: one call of execute_workflow ----
    pc,                 \* position of the call
    cur,                \* i of the stage loop (1-based)
    attempt,            \* attempt of _retry_stage's loop
    in_retry,           \* the running attempt was started by _retry_stage
    stages_completed,
    partial_results,
    output_dir,         \* self.output_dir
    dir_created,        \* the output directory exists on disk
    result,             \* the ExecutionResult returned
    \* ---- history of the run ----
    status,             \* per stage: PENDING, RUNNING, COMPLETED, FAILED, RETRYING
    attempts,           \* per stage: number of calls of _execute_stage
    terminal,           \* stages the run gave up on
    counted,            \* stages for which stages_completed was incremented
    artifacts,          \* stage numbers of the stage files written, in order
    delays,             \* arguments of time.sleep in _retry_stage, in order
    summary,            \* execution_summary.json, or NoSummary
    \* ---- WorkflowValidator: one call of validate_workflow ----
    vpc,                \* position of the call
    validation,         \* the ValidationResult returned
    \* ---- what a run leaves on disk and on the terminal ----
    config_saved,       \* workflow_config.yaml was written
    parallel,           \* stages a dry run printed as parallel-eligible
    previous,           \* what the dry run before this one reported
    \* ---- WorkflowSystem ----
    files,              \* suggested/, active/, archive/: name -> document
    spc,                \* position of the WorkflowSystem operation
    last_op,            \* the operation in progress or just returned
    validated,          \* names validated with success, not archived since
    \* ---- WorkflowParser: one call of parse_draft or parse_suggested ----
    source,             \* the file at file_path, as far as it was read
    ppc,                \* position of the call
    line_no,            \* the line of the Stages section _parse_stages is at
    current_stage,      \* current_stage of _parse_stages: <<>> for None
    parsed_stages,      \* stages of _parse_stages
    parse_error,        \* the exception that left the call, or "None"
    \* ---- WorkflowRunner ----
    call,               \* the method called: execute_workflow_step or
                        \* execute_with_todo_tracking
    workflow_steps,     \* the steps given to the call
    agent_handlers,     \* agents a handler is registered for
    command_cache,      \* commands whose module is loaded
    rpc,                \* position of the call
    step_index,         \* i of the loop of execute_with_todo_tracking (1-based)
    step_result,        \* result of execute_workflow_step
    results,            \* results of execute_with_todo_tracking
    context             \* the WorkflowContext

execVars == <<pc, cur, attempt, in_retry, stages_completed, partial_results,
              output_dir, dir_created, result, status, attempts, terminal,
              counted, artifacts, delays, summary>>
inputVars == <<workflow, file, dry_run, error_handling, max_retries,
               registry, verified_agents, client_dir_exists>>
valVars == <<vpc, validation>>
\* what an executor step leaves alone, and what a validator step leaves alone
dryVars == <<parallel, previous>>
sysVars == <<files, spc, last_op, validated>>
parseVars == <<source, ppc, line_no, current_stage, parsed_stages,
               parse_error>>
runVars == <<call, workflow_steps, agent_handlers, command_cache, rpc,
             step_index, step_result, results, context>>
otherVars == <<config_saved, dryVars, sysVars, parseVars, runVars>>
notExecVars == <<valVars, otherVars>>
notValVars == <<execVars, otherVars>>
vars == <<inputVars, execVars, valVars, otherVars>>

----------------------------------------------------------------------------
\* Bounds of the model
MaxStages == 3
MaxRetries == 3

\* exec_config default of retry_delay (seconds)
retry_delay == 5

Policies == {"stop", "retry", "continue"}

----------------------------------------------------------------------------
\* Data model

\* A WorkflowStage without dependencies, agents or MCPs.
PlainStage ==
    [dependencies |-> <<>>, recommended_agents |-> <<>>,
     suggested_mcps |-> <<>>, description |-> {}]

\* WorkflowDefinition: the fields the executor and the validator read.
\* goal: the Goal section is non-empty; estimated_time: minutes, -1 for None;
\* client_slug: a client_slug parameter is present; inputs: one record per
\* entry of the Inputs section.
WorkflowDefinition(stages, goal, inputs, client_slug, estimated_time) ==
    [stages |-> stages, goal |-> goal, inputs |-> inputs,
     client_slug |-> client_slug, estimated_time |-> estimated_time]

PlainWorkflows ==
    { WorkflowDefinition([i \in 1..n |-> PlainStage], TRUE, <<>>, FALSE, -1) :
        n \in 0..MaxStages }

NoResult == [returned |-> FALSE]
NoSummary == [written |-> FALSE]
NoValidation == [returned |-> FALSE]

\* ExecutionResult (estimated_time in half minutes, -1 for None)
ExecutionResult(success, completed, total, dir, err, partial, est) ==
    [returned |-> TRUE, success |-> success, stages_completed |-> completed,
     total_stages |-> total, output_directory |-> dir, error_message |-> err,
     partial_results |-> partial, estimated_time |-> est]

TotalStages == Len(workflow.stages)

----------------------------------------------------------------------------
\* WorkflowExecutor

\* str.lower() on the words a description is made of
Lower(word) ==
    IF word \in {"Comprehensive", "COMPREHENSIVE"} THEN "comprehensive"
    ELSE IF word \in {"Quick", "QUICK"} THEN "quick"
    ELSE IF word \in {"None", "NONE"} THEN "none"
    ELSE word

\* 'word' in stage.description.lower(); a description is the set of its words
DescriptionHas(stage, word) ==
    word \in { Lower(w) : w \in stage.description }

\* the elif of line 608 taken before the if of line 606
estimate_stage_timeQuickFirst(stage) ==
    LET b0 == 5
        b1 == IF Len(stage.recommended_agents) > 1 THEN b0 + 2 ELSE b0
        b2 == IF Len(stage.suggested_mcps) > 2 THEN b1 + 3 ELSE b1
    IN  IF DescriptionHas(stage, "quick") THEN b2
        ELSE IF DescriptionHas(stage, "comprehensive") THEN 3 * b2
        ELSE 2 * b2

\* _estimate_stage_time, in half minutes (base 5 min, *1.5, *0.5)
estimate_stage_time(stage) ==
    LET b0 == 5
        b1 == IF Len(stage.recommended_agents) > 1 THEN b0 + 2 ELSE b0
        b2 == IF Len(stage.suggested_mcps) > 2 THEN b1 + 3 ELSE b1
    IN  IF DescriptionHas(stage, "comprehensive") THEN 3 * b2
        ELSE IF DescriptionHas(stage, "quick") THEN b2
        ELSE 2 * b2

RECURSIVE SumEstimates(_, _)
SumEstimates(stages, n) ==
    IF n = 0 THEN 0
    ELSE SumEstimates(stages, n - 1) + estimate_stage_time(stages[n])

\* the except clause of execute_workflow, with workflow bound
OuterExcept ==
    ExecutionResult(FALSE, 0, TotalStages, "None", "Execution failed", FALSE, -1)

\* the except clause of _perform_execution
InnerExcept ==
    ExecutionResult(FALSE, stages_completed, TotalStages, output_dir,
                    "error", TRUE, -1)

\* success reported as soon as some stage completed
NormalSuccessAnyStage(completed, total) == completed > 0

\* the success field of the normal return of _perform_execution
NormalSuccess(completed, total) == completed = total

\* the normal return of _perform_execution
NormalReturn ==
    ExecutionResult(NormalSuccess(stages_completed, TotalStages),
                    stages_completed, TotalStages,
                    output_dir, "None", partial_results, -1)

\* execute_workflow: parse_suggested raises for a missing or unreadable file;
\* the except clause then reads the local `workflow`, which was never bound,
\* and the UnboundLocalError leaves execute_workflow.
ParseSuggested ==
    /\ pc = "start"
    /\ pc' = IF file = "ok" THEN "dispatch" ELSE "raised"
    /\ UNCHANGED <<inputVars, notExecVars, cur, attempt, in_retry, stages_completed,
                   partial_results, output_dir, dir_created, result, status,
                   attempts, terminal, counted, artifacts, delays, summary>>

\* the estimate of a dry run starts from what the dry run before it reported
EstimateStartCarried(before) ==
    IF before.returned THEN before.estimated_time ELSE 0

\* estimated_time = 0 (line 83), whatever an earlier dry run reported
EstimateStart(before) == 0

\* the stages for which "Could run in parallel with earlier stages" is
\* printed: if not stage.dependencies and i > 1
ParallelEligible(stages) ==
    { i \in 1..Len(stages) : Len(stages[i].dependencies) = 0 /\ i > 1 }

\* a dry run that creates the output directory of a real run
PerformDryRunCreatesDirectory ==
    /\ pc = "dispatch"
    /\ dry_run
    /\ result' = ExecutionResult(TRUE, 0, TotalStages, "output_dir", "None",
                                 FALSE,
                                 SumEstimates(workflow.stages, TotalStages))
    /\ parallel' = ParallelEligible(workflow.stages)
    /\ dir_created' = TRUE
    /\ output_dir' = "output_dir"
    /\ pc' = "done"
    /\ UNCHANGED <<inputVars, valVars, config_saved, parseVars, runVars, previous, sysVars, cur,
                   attempt, in_retry, stages_completed,
                   partial_results, status,
                   attempts, terminal, counted, artifacts, delays, summary>>

\* _perform_dry_run
PerformDryRun ==
    /\ pc = "dispatch"
    /\ dry_run
    /\ result' = ExecutionResult(TRUE, 0, TotalStages, "None", "None", FALSE,
                                 EstimateStart(previous)
                                 + SumEstimates(workflow.stages, TotalStages))
    /\ parallel' = ParallelEligible(workflow.stages)
    /\ pc' = "done"
    /\ UNCHANGED <<inputVars, valVars, config_saved, parseVars, runVars, previous, sysVars, cur,
                   attempt, in_retry, stages_completed,
                   partial_results, output_dir, dir_created, status,
                   attempts, terminal, counted, artifacts, delays, summary>>

\* _create_output_directory: mkdir may raise before or after the run's
\* directory exists; self.output_dir is assigned only on return.
CreateOutputDirectory ==
    /\ pc = "dispatch"
    /\ ~dry_run
    /\ \E outcome \in {"ok", "raise_before", "raise_after"} :
        /\ dir_created' = (outcome # "raise_before")
        /\ IF outcome = "ok"
           THEN /\ output_dir' = "output_dir"
                /\ pc' = "save_config"
                /\ UNCHANGED result
           ELSE /\ result' = OuterExcept
                /\ pc' = "done"
                /\ UNCHANGED output_dir
    /\ UNCHANGED <<inputVars, notExecVars, cur, attempt, in_retry, stages_completed,
                   partial_results, status, attempts, terminal, counted,
                   artifacts, delays, summary>>

\* _save_workflow_config, outside the try of _perform_execution
SaveWorkflowConfig ==
    /\ pc = "save_config"
    /\ \E raises \in BOOLEAN :
        IF raises
        THEN /\ result' = OuterExcept
             /\ pc' = "done"
             /\ config_saved' \in BOOLEAN
        ELSE /\ pc' = "archive"
             /\ config_saved' = TRUE
             /\ UNCHANGED result
    /\ UNCHANGED <<inputVars, valVars, dryVars, sysVars, parseVars, runVars, cur,
                   attempt, in_retry, stages_completed,
                   partial_results, output_dir, dir_created, status,
                   attempts, terminal, counted, artifacts, delays, summary>>

\* _archive_input_files, outside the try of _perform_execution; then the
\* stage loop starts (or ends at once for an empty stage list)
ArchiveInputFiles ==
    /\ pc = "archive"
    /\ \E raises \in BOOLEAN :
        IF raises
        THEN /\ result' = OuterExcept
             /\ pc' = "done"
        ELSE /\ pc' = IF TotalStages = 0 THEN "final" ELSE "loop"
             /\ UNCHANGED result
    /\ UNCHANGED <<inputVars, notExecVars, cur, attempt, in_retry, stages_completed,
                   partial_results, output_dir, dir_created, status,
                   attempts, terminal, counted, artifacts, delays, summary>>

\* the position after stage i is done with: the next stage, or the end of the loop
AfterStage(i) == IF i < TotalStages THEN "loop" ELSE "final"

\* stage_result = self._execute_stage(stage, i, workflow): the first attempt
StartStage ==
    /\ pc = "loop"
    /\ status' = [status EXCEPT ![cur] = "RUNNING"]
    /\ attempts' = [attempts EXCEPT ![cur] = @ + 1]
    /\ in_retry' = FALSE
    /\ pc' = "running"
    /\ UNCHANGED <<inputVars, notExecVars, cur, attempt, stages_completed, partial_results,
                   output_dir, dir_created, result, terminal, counted,
                   artifacts, delays, summary>>

\* a stage that succeeds on a retry is not counted
StageSucceedsRetryNotCounted ==
    /\ pc = "running"
    /\ status' = [status EXCEPT ![cur] = "COMPLETED"]
    /\ stages_completed' = IF in_retry THEN stages_completed
                           ELSE stages_completed + 1
    /\ counted' = IF in_retry THEN counted ELSE counted \cup {cur}
    /\ pc' = "save"
    /\ UNCHANGED <<inputVars, notExecVars, cur, attempt, in_retry, partial_results,
                   output_dir, dir_created, result, attempts, terminal,
                   artifacts, delays, summary>>

\* stages_completed grows by the number of attempts the stage took
StageSucceedsCountsAttempts ==
    /\ pc = "running"
    /\ status' = [status EXCEPT ![cur] = "COMPLETED"]
    /\ stages_completed' = stages_completed + attempts[cur]
    /\ counted' = counted \cup {cur}
    /\ pc' = "save"
    /\ UNCHANGED <<inputVars, notExecVars, cur, attempt, in_retry, partial_results,
                   output_dir, dir_created, result, attempts, terminal,
                   artifacts, delays, summary>>

\* _execute_stage returns success: True (first attempt or a retry):
\* stages_completed += 1, then _save_stage_results
StageSucceeds ==
    /\ pc = "running"
    /\ status' = [status EXCEPT ![cur] = "COMPLETED"]
    /\ stages_completed' = stages_completed + 1
    /\ counted' = counted \cup {cur}
    /\ pc' = "save"
    /\ UNCHANGED <<inputVars, notExecVars, cur, attempt, in_retry, partial_results,
                   output_dir, dir_created, result, attempts, terminal,
                   artifacts, delays, summary>>

\* range(max_retries + 1): one retry too many
HasRetryAttemptOffByOne(a, retries) == a <= retries

\* for attempt in range(max_retries): is there an attempt a?
HasRetryAttempt(a, retries) == a < retries

\* the stop branch without its break
OnStageFailedStopNoBreak(policy) ==
    IF policy = "retry" THEN "break" ELSE "next"

\* every policy breaks out of the loop
OnStageFailedAlwaysBreak(policy) == "break"

\* after the retries are exhausted the loop goes on with the next stage
OnStageFailedRetryGoesOn(policy) ==
    IF policy = "stop" THEN "break" ELSE "next"

\* what the failure branch of the stage loop does with a stage that failed
\* for good: "break" or "next" (lines 156-171)
OnStageFailed(policy) ==
    IF policy = "stop" THEN "break"
    ELSE IF policy = "retry" THEN "break"
    ELSE "next"

\* partial_results after a stage failed for good (lines 157, 168)
PartialAfterFailure(policy, partial) ==
    IF policy \in {"stop", "retry"} THEN TRUE ELSE partial

\* the stage is given up on
GiveUp ==
    /\ terminal' = terminal \cup {cur}
    /\ partial_results' = PartialAfterFailure(error_handling, partial_results)
    /\ IF OnStageFailed(error_handling) = "break"
       THEN pc' = "final" /\ UNCHANGED cur
       ELSE /\ pc' = AfterStage(cur)
            /\ cur' = IF cur < TotalStages THEN cur + 1 ELSE cur

\* _retry_stage is called whatever the policy
StageFailsUnderAnyPolicy ==
    /\ pc = "running"
    /\ status' = [status EXCEPT ![cur] = "FAILED"]
    /\ IF ~in_retry
       THEN IF HasRetryAttempt(0, max_retries)
            THEN /\ attempt' = 0
                 /\ pc' = "backoff"
                 /\ UNCHANGED <<terminal, partial_results, cur>>
            ELSE /\ GiveUp
                 /\ UNCHANGED attempt
       ELSE IF HasRetryAttempt(attempt + 1, max_retries)
            THEN /\ attempt' = attempt + 1
                 /\ pc' = "backoff"
                 /\ UNCHANGED <<terminal, partial_results, cur>>
            ELSE /\ GiveUp
                 /\ UNCHANGED attempt
    /\ UNCHANGED <<inputVars, notExecVars, in_retry, stages_completed, output_dir,
                   dir_created, result, attempts, counted, artifacts, delays,
                   summary>>

\* _execute_stage returns success: False
StageFails ==
    /\ pc = "running"
    /\ status' = [status EXCEPT ![cur] = "FAILED"]
    /\ IF ~in_retry
       THEN \* the first attempt failed: the policy decides
            IF error_handling = "retry" /\ HasRetryAttempt(0, max_retries)
            THEN /\ attempt' = 0
                 /\ pc' = "backoff"
                 /\ UNCHANGED <<terminal, partial_results, cur>>
            ELSE /\ GiveUp
                 /\ UNCHANGED attempt
       ELSE \* inside _retry_stage
            IF HasRetryAttempt(attempt + 1, max_retries)
            THEN /\ attempt' = attempt + 1
                 /\ pc' = "backoff"
                 /\ UNCHANGED <<terminal, partial_results, cur>>
            ELSE /\ GiveUp
                 /\ UNCHANGED attempt
    /\ UNCHANGED <<inputVars, notExecVars, in_retry, stages_completed, output_dir,
                   dir_created, result, attempts, counted, artifacts, delays,
                   summary>>

RECURSIVE Pow2(_)
Pow2(n) == IF n = 0 THEN 1 ELSE 2 * Pow2(n - 1)

\* a delay that grows by retry_delay instead of doubling
BackoffDelayLinear(a) == retry_delay * (a + 1)

\* time.sleep(retry_delay * (2 ** attempt))
BackoffDelay(a) == retry_delay * Pow2(a)

\* _retry_stage: the sleep before a retry
Backoff ==
    /\ pc = "backoff"
    /\ status' = [status EXCEPT ![cur] = "RETRYING"]
    /\ delays' = Append(delays, BackoffDelay(attempt))
    /\ pc' = "retry_run"
    /\ UNCHANGED <<inputVars, notExecVars, cur, attempt, in_retry, stages_completed,
                   partial_results, output_dir, dir_created, result, attempts,
                   terminal, counted, artifacts, summary>>

\* _retry_stage: result = self._execute_stage(stage, stage_num, workflow)
RetryRun ==
    /\ pc = "retry_run"
    /\ status' = [status EXCEPT ![cur] = "RUNNING"]
    /\ attempts' = [attempts EXCEPT ![cur] = @ + 1]
    /\ in_retry' = TRUE
    /\ pc' = "running"
    /\ UNCHANGED <<inputVars, notExecVars, cur, attempt, stages_completed, partial_results,
                   output_dir, dir_created, result, terminal, counted,
                   artifacts, delays, summary>>

\* _save_stage_results (inside the try of _perform_execution)
SaveStageResults ==
    /\ pc = "save"
    /\ \E raises \in BOOLEAN :
        IF raises
        THEN /\ result' = InnerExcept
             /\ pc' = "done"
             /\ UNCHANGED <<artifacts, cur>>
        ELSE /\ artifacts' = Append(artifacts, cur)
             /\ pc' = AfterStage(cur)
             /\ cur' = IF cur < TotalStages THEN cur + 1 ELSE cur
             /\ UNCHANGED result
    /\ UNCHANGED <<inputVars, notExecVars, attempt, in_retry, stages_completed,
                   partial_results, output_dir, dir_created, status, attempts,
                   terminal, counted, delays, summary>>

\* the summary is written inside the stage loop, after each stage
GenerateFinalReportsInLoop ==
    /\ pc \in {"final", "loop"}
    /\ stages_completed > 0
    /\ \E raises \in BOOLEAN :
        IF raises
        THEN /\ result' = InnerExcept
             /\ pc' = "done"
             /\ UNCHANGED summary
        ELSE /\ summary' = [written |-> TRUE, stages_completed |-> TotalStages,
                            after_artifacts |-> Len(artifacts)]
             /\ pc' = IF pc = "loop" THEN "loop" ELSE "return"
             /\ UNCHANGED result
    /\ UNCHANGED <<inputVars, notExecVars, cur, attempt, in_retry, stages_completed,
                   partial_results, output_dir, dir_created, status, attempts,
                   terminal, counted, artifacts, delays>>

\* if stages_completed > 0: self._generate_final_reports(...)
\* the summary records 'stages_completed': len(workflow.stages)
GenerateFinalReports ==
    /\ pc = "final"
    /\ stages_completed > 0
    /\ \E raises \in BOOLEAN :
        IF raises
        THEN /\ result' = InnerExcept
             /\ pc' = "done"
             /\ UNCHANGED summary
        ELSE /\ summary' = [written |-> TRUE, stages_completed |-> TotalStages,
                            after_artifacts |-> Len(artifacts)]
             /\ pc' = "return"
             /\ UNCHANGED result
    /\ UNCHANGED <<inputVars, notExecVars, cur, attempt, in_retry, stages_completed,
                   partial_results, output_dir, dir_created, status, attempts,
                   terminal, counted, artifacts, delays>>

\* return ExecutionResult(...) of _perform_execution
Return ==
    /\ \/ pc = "return"
       \/ pc = "final" /\ stages_completed = 0
    /\ result' = NormalReturn
    /\ pc' = "done"
    /\ UNCHANGED <<inputVars, notExecVars, cur, attempt, in_retry, stages_completed,
                   partial_results, output_dir, dir_created, status, attempts,
                   terminal, counted, artifacts, delays, summary>>

----------------------------------------------------------------------------
\* Specification of one call of execute_workflow

ExecInit ==
    /\ pc = "start"
    /\ cur = 1
    /\ attempt = 0
    /\ in_retry = FALSE
    /\ stages_completed = 0
    /\ partial_results = FALSE
    /\ output_dir = "None"
    /\ dir_created = FALSE
    /\ result = NoResult
    /\ status = [i \in 1..TotalStages |-> "PENDING"]
    /\ attempts = [i \in 1..TotalStages |-> 0]
    /\ terminal = {}
    /\ counted = {}
    /\ artifacts = <<>>
    /\ delays = <<>>
    /\ summary = NoSummary

\* no call of validate_workflow yet
ValInit ==
    /\ vpc = "start"
    /\ validation = NoValidation

\* the workflow names given to WorkflowSystem, and the lifecycle
\* directories that hold <name>.md
Names == {"w1", "w2"}
Dirs == {"suggested", "active", "archive"}

\* every lifecycle directory is empty
NoFiles == [dir \in Dirs |-> [n \in Names |-> "absent"]]
NoOperation == [kind |-> "none"]

\* no file was given to the parser
NoSource == [exists |-> FALSE]

\* nothing on disk, no dry run before this call, no WorkflowSystem operation
SystemInit ==
    /\ config_saved = FALSE
    /\ parallel = {}
    /\ previous = NoResult
    /\ files = NoFiles
    /\ spc = "idle"
    /\ last_op = NoOperation
    /\ validated = {}

\* the locals of a parser call that has not started
ParserInit ==
    /\ line_no = 1
    /\ current_stage = <<>>
    /\ parsed_stages = <<>>
    /\ parse_error = "None"

\* no WorkflowRunner is called
RunnerInit ==
    /\ call = "none"
    /\ workflow_steps = <<>>
    /\ agent_handlers = {}
    /\ command_cache = {}
    /\ rpc = "idle"
    /\ step_index = 1
    /\ step_result = NoResult
    /\ results = <<>>
    /\ context = [current_agent |-> "None", results |-> <<>>,
                  todo_list |-> <<>>]

\* as SystemInit, and neither the parser nor the runner is called
OtherInit ==
    /\ SystemInit
    /\ source = NoSource
    /\ ppc = "idle"
    /\ ParserInit
    /\ RunnerInit

Init ==
    /\ workflow \in PlainWorkflows
    /\ file \in {"ok", "missing", "malformed"}
    /\ dry_run \in BOOLEAN
    /\ error_handling \in Policies
    /\ max_retries \in 0..MaxRetries
    /\ registry = {}
    /\ verified_agents = {}
    /\ client_dir_exists = FALSE
    /\ ExecInit
    /\ ValInit
    /\ OtherInit

Next ==
    \/ ParseSuggested
    \/ PerformDryRun
    \/ CreateOutputDirectory
    \/ SaveWorkflowConfig
    \/ ArchiveInputFiles
    \/ StartStage
    \/ StageSucceeds
    \/ StageFails
    \/ Backoff
    \/ RetryRun
    \/ SaveStageResults
    \/ GenerateFinalReports
    \/ Return

Spec == Init /\ [][Next]_vars

----------------------------------------------------------------------------
\* Dry runs of workflows whose stages carry agents, MCPs, a description and
\* dependencies; the same workflow may be dry-run a second time.

MaxDryStages == 2

\* the stages of a dry-run workflow: 1 or 2 agents, 2 or 3 MCPs, a
\* description with or without the words the estimate looks for, no
\* dependency or a dependency on the first stage
RichStages ==
    [dependencies : {<<>>, <<"Stage 1">>},
     recommended_agents : {<<"AgentA">>, <<"AgentA", "AgentB">>},
     suggested_mcps : {<<"fetch", "firecrawl">>,
                       <<"fetch", "firecrawl", "dataforseo">>},
     description : {{}, {"quick"}, {"Comprehensive"},
                    {"Comprehensive", "QUICK"}}]

\* execute_workflow(path, dry_run=True) is called once more on the same
\* file; what the first call reported is kept for comparison
InvokeAgain ==
    /\ pc = "done"
    /\ dry_run
    /\ ~previous.returned
    /\ previous' = [returned |-> TRUE,
                    estimated_time |-> result.estimated_time,
                    parallel |-> parallel]
    /\ result' = NoResult
    /\ parallel' = {}
    /\ pc' = "start"
    /\ UNCHANGED <<inputVars, valVars, config_saved, parseVars, runVars, sysVars, cur, attempt,
                   in_retry, stages_completed, partial_results, output_dir,
                   dir_created, status, attempts, terminal, counted,
                   artifacts, delays, summary>>

InitDryRun ==
    /\ \E n \in 0..MaxDryStages :
        \E stages \in [1..n -> RichStages] :
            workflow = WorkflowDefinition(stages, TRUE, <<>>, FALSE, -1)
    /\ file = "ok"
    /\ dry_run = TRUE
    /\ error_handling = "retry"
    /\ max_retries = 3
    /\ registry = {}
    /\ verified_agents = {}
    /\ client_dir_exists = FALSE
    /\ ExecInit
    /\ ValInit
    /\ OtherInit

NextDryRun ==
    \/ ParseSuggested
    \/ PerformDryRun
    \/ InvokeAgain

SpecDryRun == InitDryRun /\ [][NextDryRun]_vars

----------------------------------------------------------------------------
\* Properties of the executor

RealRunReturned == pc = "done" /\ ~dry_run
NormalPath == RealRunReturned /\ result.error_message = "None"
StageSet == 1..TotalStages

\* C1: under policy retry with max_retries = R no stage is attempted more
\* than R+1 times, and a stage the run gave up on (every attempt failed) was
\* attempted exactly R+1 times and was not counted in stages_completed.
C1_RetryAttemptsExactly ==
    error_handling = "retry" =>
        /\ \A i \in StageSet : attempts[i] <= max_retries + 1
        /\ \A i \in terminal :
            /\ attempts[i] = max_retries + 1
            /\ i \notin counted
            /\ stages_completed = Cardinality(counted)

C1_Witness ==
    /\ error_handling = "retry"
    /\ max_retries = 3
    /\ pc = "done"
    /\ \E i \in terminal : attempts[i] = 4 /\ status[i] = "FAILED"

\* C2: under policy stop, once stage k failed no later stage is attempted,
\* and the result has stages_completed = k-1, partial_results, not success,
\* and the output directory of the run.
C2_StopAtFirstFailure ==
    error_handling = "stop" =>
        \A k \in terminal :
            /\ \A j \in StageSet : j > k => attempts[j] = 0
            /\ \A j \in StageSet : j < k => status[j] = "COMPLETED"
            /\ attempts[k] = 1
            /\ RealRunReturned =>
                /\ result.stages_completed = k - 1
                /\ result.partial_results
                /\ ~result.success
                /\ result.output_directory = "output_dir"
                /\ dir_created

C2_Witness ==
    /\ error_handling = "stop"
    /\ TotalStages = 3
    /\ terminal = {2}
    /\ RealRunReturned
    /\ result.stages_completed = 1

StoppedEarly ==
    /\ \E i \in StageSet : attempts[i] > 0
    /\ \E i \in StageSet : attempts[i] = 0

\* C4: a real run that stopped early, or in which a stage failed for good,
\* returns partial_results = true, under every policy.
C4_PartialWheneverFailed ==
    (RealRunReturned /\ (StoppedEarly \/ terminal # {})) =>
        result.partial_results

\* C5 (as claimed): every result of a real run has
\* success = (stages_completed = total_stages), on the exception paths too.
C5_SuccessIffAllCompleted ==
    RealRunReturned =>
        (result.success = (result.stages_completed = result.total_stages))

\* C5 (amended): a result of a real run without error_message has
\* success = (stages_completed = total_stages); a result with an
\* error_message (an exception was caught) has success = false.
C5_SuccessOnNormalReturn ==
    RealRunReturned =>
        IF result.error_message = "None"
        THEN result.success = (result.stages_completed = result.total_stages)
        ELSE ~result.success

C5_Witness ==
    /\ NormalPath
    /\ result.success
    /\ result.total_stages = 3
    /\ result.stages_completed = 3

\* C6: execute_workflow never raises: for every input, a missing or
\* unparseable file included, it returns a failed result with an
\* error_message.
C6_NeverRaises ==
    /\ pc # "raised"
    /\ (pc = "done" /\ file # "ok") =>
          ~result.success /\ result.error_message # "None"

\* C7: an exception after the output directory was created gives a failed
\* result that carries stages_completed and that output directory.
C7_ExceptionKeepsOutputDirectory ==
    (RealRunReturned /\ result.error_message # "None" /\ output_dir # "None") =>
        /\ result.output_directory = output_dir
        /\ result.stages_completed = stages_completed

----------------------------------------------------------------------------
\* WorkflowValidator

\* bounds of the workflows given to the validator
MaxValStages == 3
MaxDeps == 3
MaxAgentStages == 3
MaxAgentRefs == 3
MaxGraphStages == 4
MaxGraphDeps == 4
MaxConflictStages == 3
MaxConflictDeps == 2

\* f"Stage {i+1}" for the stage at 1-based position i
StageName(i) == "Stage " \o ToString(i)

Range(seq) == { seq[k] : k \in 1..Len(seq) }

\* an entry of errors, warnings or suggestions: the message kind and what
\* it names (a capability or dependency token, and the stage for messages
\* that name a stage)
Msg(kind, name, stage) == [kind |-> kind, name |-> name, stage |-> stage]

ValidationResult(is_valid, agents, mcps, inputs, no_conflicts, errors, warnings, suggestions) ==
    [returned |-> TRUE, is_valid |-> is_valid, agents_available |-> agents,
     mcps_available |-> mcps, input_files_valid |-> inputs,
     no_conflicts |-> no_conflicts, errors |-> errors,
     warnings |-> warnings, suggestions |-> suggestions]

\* _discover_available_mcps
available_mcps ==
    {"sequential_thinking", "firecrawl", "fetch", "dataforseo", "chart-mcp",
     "data-explorer", "Context7", "ref-tools-mcp", "screenshot-website-fast",
     "perplexity-ask", "gsc-mcp", "pylint-mcp", "bandit-mcp", "lighthouse-mcp"}

\* the orders in which a Python set may be iterated
Orderings(S) ==
    { f \in [1..Cardinality(S) -> S] :
        \A a, b \in 1..Cardinality(S) : a # b => f[a] # f[b] }

RECURSIVE Concat(_, _)
\* the concatenation of f(1), ..., f(n)
Concat(f, n) == IF n = 0 THEN <<>> ELSE Concat(f, n - 1) \o f[n]

\* the union of every stage's recommended_agents / suggested_mcps
required_agents(stages) ==
    UNION { Range(stages[i].recommended_agents) : i \in 1..Len(stages) }
required_mcps(stages) ==
    UNION { Range(stages[i].suggested_mcps) : i \in 1..Len(stages) }

\* the domain keywords a capability name contains
Keywords(name) ==
    { k \in {"SEO", "Benchmark", "Codebase", "Feature", "Quality", "Metrics",
             "Report", "Data", "dataforseo", "firecrawl", "perplexity",
             "chart", "visual", "gsc"} :
        \/ k = "SEO" /\ name \in {"TechnicalSEOAgent", "SEOAuditAgent"}
        \/ k = "Benchmark" /\ name = "BenchmarkResearchAgent"
        \/ k = "Data" /\ name = "DataPipelineAgent"
        \/ k = "Metrics" /\ name = "MetricsReporterAgent"
        \/ k = "Report" /\ name = "MetricsReporterAgent"
        \/ k = "Codebase" /\ name = "CodebaseAnalyzerAgent"
        \/ k = "Feature" /\ name = "FeatureDeveloperAgent"
        \/ k = "dataforseo" /\ name \in {"dataforseo", "dataforseo-mcp"}
        \/ k = "firecrawl" /\ name \in {"firecrawl", "firecrawl-mcp"}
        \/ k = "perplexity" /\ name = "perplexity-ask"
        \/ k = "chart" /\ name = "chart-mcp"
        \/ k = "gsc" /\ name = "gsc-mcp" }

\* _suggest_agent_alternatives: is there an alternative to suggest?
\* (alternatives[:3] is non-empty)
has_agent_alternatives(missing, available) ==
    LET wanted == IF "SEO" \in Keywords(missing) THEN {"SEO", "Benchmark"}
                  ELSE IF "Codebase" \in Keywords(missing)
                       THEN {"Feature", "Quality"}
                  ELSE IF "Metrics" \in Keywords(missing)
                       THEN {"Report", "Data"}
                  ELSE {}
    IN  \E a \in available : Keywords(a) \cap wanted # {}

\* _suggest_mcp_alternatives: is there an alternative to suggest?
has_mcp_alternatives(missing, available) ==
    LET wanted == IF "dataforseo" \in Keywords(missing)
                  THEN {"firecrawl", "perplexity"}
                  ELSE IF "chart" \in Keywords(missing) THEN {"visual"}
                  ELSE IF "gsc" \in Keywords(missing) THEN {"dataforseo"}
                  ELSE {}
    IN  \E m \in available : Keywords(m) \cap wanted # {}

\* the set difference forgotten
missing_agentsNoDifference(stages, available) == required_agents(stages)

\* missing_agents = required_agents - set(available_agents)
missing_agents(stages, available) == required_agents(stages) \ available

\* one "Agent not available" error per element of missing_agents, in the
\* order the set is iterated
agent_errors(order) ==
    [k \in 1..Len(order) |-> Msg("agent_not_available", order[k], 0)]

\* _validate_agents: the errors, warnings and suggestions it appends and the
\* value it returns, when the set of missing agents is iterated in `order`
validate_agents(stages, order) ==
    IF Len(order) > 0
    THEN [ret |-> FALSE,
          errors |-> agent_errors(order),
          warnings |-> <<>>,
          suggestions |->
              Concat([k \in 1..Len(order) |->
                        IF has_agent_alternatives(order[k], registry)
                        THEN <<Msg("agent_alternatives", order[k], 0)>>
                        ELSE <<>>], Len(order))]
    ELSE [ret |-> TRUE,
          errors |-> <<>>,
          warnings |->
              Concat([i \in 1..Len(stages) |->
                  Concat([k \in 1..Len(stages[i].recommended_agents) |->
                      IF stages[i].recommended_agents[k] \in verified_agents
                      THEN <<>>
                      ELSE <<Msg("capabilities_unverified",
                                 stages[i].recommended_agents[k], 0)>>],
                      Len(stages[i].recommended_agents))], Len(stages)),
          suggestions |-> <<>>]

\* _validate_mcps
validate_mcps(stages, order) ==
    IF Len(order) > 0
    THEN [ret |-> FALSE,
          errors |-> [k \in 1..Len(order) |->
                        Msg("mcp_not_available", order[k], 0)],
          warnings |-> <<>>,
          suggestions |->
              Concat([k \in 1..Len(order) |->
                        IF has_mcp_alternatives(order[k], available_mcps)
                        THEN <<Msg("mcp_alternatives", order[k], 0)>>
                        ELSE <<>>], Len(order))]
    ELSE [ret |-> TRUE, errors |-> <<>>, warnings |-> <<>>,
          suggestions |-> <<>>]

\* a required input file that is absent is an error
validate_input_filesMissingIsError(wf) ==
    LET n == Len(wf.inputs)
        e(k) == LET inp == wf.inputs[k] IN
                IF inp.in_inputs /\ ~inp.exists /\ inp.required
                THEN <<Msg("input_not_found", inp.name, 0)>>
                ELSE <<>>
    IN  [ret |-> FALSE,
         errors |-> Concat([k \in 1..n |-> e(k)], n),
         warnings |-> <<>>,
         suggestions |-> <<>>]

\* _validate_input_files. An input is [name, required, in_inputs, exists]:
\* 'required' occurs in its name, its location starts with 'inputs/', the
\* file exists. (parse_suggested gives every input as a string, never a dict.)
validate_input_files(wf) ==
    LET dirw == IF wf.client_slug /\ ~client_dir_exists
                THEN <<Msg("client_dir_missing", "", 0)>> ELSE <<>>
        dirs == IF wf.client_slug /\ ~client_dir_exists
                THEN <<Msg("create_client_dir", "", 0)>> ELSE <<>>
        n == Len(wf.inputs)
        w(k) == LET inp == wf.inputs[k] IN
                IF inp.in_inputs /\ ~inp.exists
                THEN IF inp.required
                     THEN <<Msg("input_not_found", inp.name, 0)>>
                     ELSE <<Msg("optional_input_not_found", inp.name, 0)>>
                ELSE <<>>
        g(k) == LET inp == wf.inputs[k] IN
                IF inp.in_inputs /\ ~inp.exists /\ inp.required
                THEN <<Msg("create_input_or_fallback", inp.name, 0)>>
                ELSE <<>>
    IN  [ret |-> TRUE,
         errors |-> <<>>,
         warnings |-> dirw \o Concat([k \in 1..n |-> w(k)], n),
         suggestions |-> dirs \o Concat([k \in 1..n |-> g(k)], n)]

\* no dependency ever makes two stages sequential
stages_are_sequentialNever(stages, stage1, stage2) == FALSE

\* _stages_are_sequential, with 1-based positions
stages_are_sequential(stages, stage1, stage2) ==
    IF stage1 > Len(stages) \/ stage2 > Len(stages) THEN FALSE
    ELSE StageName(stage1) \in Range(stages[stage2].dependencies)

\* dict[key] = value
DictSet(d, key, value) ==
    [x \in DOMAIN d \cup {key} |-> IF x = key THEN value ELSE d[x]]

RECURSIVE scan_agents(_, _, _, _)
\* the agent loop of _validate_no_conflicts for stage i, from its k-th agent:
\* the agent_usage it leaves and the warnings it appends
scan_agents(stages, i, k, agent_usage) ==
    IF k > Len(stages[i].recommended_agents)
    THEN [usage |-> agent_usage, warnings |-> <<>>]
    ELSE LET agent == stages[i].recommended_agents[k]
             warn == IF agent \in DOMAIN agent_usage
                        /\ ~stages_are_sequential(stages, agent_usage[agent], i)
                     THEN <<Msg("agent_conflict", agent, 0)>>
                     ELSE <<>>
             rest == scan_agents(stages, i, k + 1,
                                 DictSet(agent_usage, agent, i))
         IN  [usage |-> rest.usage, warnings |-> warn \o rest.warnings]

RECURSIVE scan_mcps(_, _, _, _)
\* the MCP loop of _validate_no_conflicts for stage i, from its k-th MCP
scan_mcps(stages, i, k, mcp_usage) ==
    IF k > Len(stages[i].suggested_mcps)
    THEN [usage |-> mcp_usage, warnings |-> <<>>]
    ELSE LET mcp == stages[i].suggested_mcps[k]
             warn == IF mcp \in DOMAIN mcp_usage
                     THEN <<Msg("mcp_rate_limit", mcp, 0)>>
                     ELSE <<>>
             rest == scan_mcps(stages, i, k + 1, DictSet(mcp_usage, mcp, i))
         IN  [usage |-> rest.usage, warnings |-> warn \o rest.warnings]

RECURSIVE scan_stages(_, _, _, _)
\* the stage loop of _validate_no_conflicts, from stage i
scan_stages(stages, i, agent_usage, mcp_usage) ==
    IF i > Len(stages) THEN <<>>
    ELSE LET a == scan_agents(stages, i, 1, agent_usage)
             m == scan_mcps(stages, i, 1, mcp_usage)
         IN  a.warnings \o m.warnings
                \o scan_stages(stages, i + 1, a.usage, m.usage)

\* _validate_no_conflicts: every agent warning comes with one suggestion
validate_no_conflicts(stages) ==
    LET warnings == scan_stages(stages, 1, <<>>, <<>>)
    IN  [ret |-> TRUE,
         errors |-> <<>>,
         warnings |-> warnings,
         suggestions |->
             Concat([k \in 1..Len(warnings) |->
                        IF warnings[k].kind = "agent_conflict"
                        THEN <<Msg("make_stages_sequential", "", 0)>>
                        ELSE <<>>], Len(warnings))]

\* graph[stage_name] = stage.dependencies
DependencyGraph(stages) ==
    [node \in { StageName(i) : i \in 1..Len(stages) } |->
        LET i == CHOOSE j \in 1..Len(stages) : StageName(j) = node
        IN  stages[i].dependencies]

\* graph.get(node, [])
GraphGet(graph, node) == IF node \in DOMAIN graph THEN graph[node] ELSE <<>>

\* the node stays on the recursion stack
LeaveNodeKeep(rec_stack, node) == rec_stack

\* rec_stack.remove(node)
LeaveNode(rec_stack, node) == rec_stack \ {node}

RECURSIVE has_cycle(_, _, _, _)
RECURSIVE visit_neighbors(_, _, _, _, _)

\* has_cycle(node, visited, rec_stack) of _has_circular_dependencies: what it
\* returns, and visited and rec_stack as it leaves them
has_cycle(graph, node, visited, rec_stack) ==
    LET r == visit_neighbors(graph, GraphGet(graph, node), 1,
                             visited \cup {node}, rec_stack \cup {node})
    IN  IF r.ret THEN r
        ELSE [ret |-> FALSE, visited |-> r.visited,
              rec_stack |-> LeaveNode(r.rec_stack, node)]

\* the neighbor loop of has_cycle, from the k-th neighbor
visit_neighbors(graph, neighbors, k, visited, rec_stack) ==
    IF k > Len(neighbors)
    THEN [ret |-> FALSE, visited |-> visited, rec_stack |-> rec_stack]
    ELSE IF neighbors[k] \notin visited
    THEN LET r == has_cycle(graph, neighbors[k], visited, rec_stack)
         IN  IF r.ret THEN r
             ELSE visit_neighbors(graph, neighbors, k + 1, r.visited,
                                  r.rec_stack)
    ELSE IF neighbors[k] \in rec_stack
    THEN [ret |-> TRUE, visited |-> visited, rec_stack |-> rec_stack]
    ELSE visit_neighbors(graph, neighbors, k + 1, visited, rec_stack)

RECURSIVE cycle_from_roots(_, _, _, _)
\* for node in graph: if node not in visited: has_cycle(node, visited, set())
\* (a dict is iterated in insertion order: Stage 1, Stage 2, ...)
cycle_from_roots(graph, n, i, visited) ==
    IF i > n THEN FALSE
    ELSE IF StageName(i) \in visited
    THEN cycle_from_roots(graph, n, i + 1, visited)
    ELSE LET r == has_cycle(graph, StageName(i), visited, {})
         IN  IF r.ret THEN TRUE
             ELSE cycle_from_roots(graph, n, i + 1, r.visited)

\* _has_circular_dependencies
has_circular_dependencies(stages) ==
    cycle_from_roots(DependencyGraph(stages), Len(stages), 1, {})

\* _validate_workflow_structure
validate_workflow_structure(wf) ==
    LET excessive == wf.estimated_time # -1 /\ wf.estimated_time # 0
                     /\ wf.estimated_time > 480
    IN  [errors |->
            (IF Len(wf.stages) = 0 THEN <<Msg("no_stages", "", 0)>> ELSE <<>>)
            \o (IF has_circular_dependencies(wf.stages)
                THEN <<Msg("circular_dependencies", "", 0)>> ELSE <<>>),
         warnings |->
            (IF ~wf.goal THEN <<Msg("goal_not_defined", "", 0)>> ELSE <<>>)
            \o (IF excessive THEN <<Msg("time_excessive", "", 0)>> ELSE <<>>),
         suggestions |->
            IF excessive THEN <<Msg("break_workflow_up", "", 0)>> ELSE <<>>]

\* the names numbered from 0: f"Stage {i}"
stage_namesZeroBased(stages) == { StageName(i - 1) : i \in 1..Len(stages) }

\* stage_names = {f"Stage {i+1}" for i in range(len(workflow.stages))}
stage_names(stages) == { StageName(i) : i \in 1..Len(stages) }

\* if dep not in stage_names
is_dangling(dep, names) == dep \notin names

\* _validate_dependencies: one error per dependency token that is no stage name
validate_dependencies(stages) ==
    Concat([i \in 1..Len(stages) |->
        Concat([k \in 1..Len(stages[i].dependencies) |->
            IF is_dangling(stages[i].dependencies[k], stage_names(stages))
            THEN <<Msg("nonexistent_dependency", stages[i].dependencies[k], i)>>
            ELSE <<>>], Len(stages[i].dependencies))], Len(stages))

\* a warning makes the workflow invalid too
is_validNoWarnings(errors, warnings, suggestions) ==
    Len(errors) = 0 /\ Len(warnings) = 0

\* is_valid = len(errors) == 0, computed when the three lists are complete
is_valid(errors, warnings, suggestions) == Len(errors) = 0

\* the except clause keeps the booleans the checks would have given
ParseFailureResultKeepsFlags(errors, warnings, suggestions) ==
    ValidationResult(FALSE, TRUE, TRUE, TRUE, TRUE,
                     Append(errors, Msg("parse_failed", "", 0)),
                     warnings, suggestions)

\* the except clause of validate_workflow: one error is appended and every
\* boolean is False
ParseFailureResult(errors, warnings, suggestions) ==
    ValidationResult(FALSE, FALSE, FALSE, FALSE, FALSE,
                     Append(errors, Msg("parse_failed", "", 0)),
                     warnings, suggestions)

\* validate_workflow for a workflow that parsed; the sets of missing agents
\* and MCPs are iterated in agent_order and mcp_order
validate(wf, agent_order, mcp_order) ==
    LET a == validate_agents(wf.stages, agent_order)
        m == validate_mcps(wf.stages, mcp_order)
        f == validate_input_files(wf)
        c == validate_no_conflicts(wf.stages)
        s == validate_workflow_structure(wf)
        d == validate_dependencies(wf.stages)
        errors == a.errors \o m.errors \o f.errors \o c.errors \o s.errors \o d
        warnings == a.warnings \o m.warnings \o f.warnings \o c.warnings
                        \o s.warnings
        suggestions == a.suggestions \o m.suggestions \o f.suggestions
                           \o c.suggestions \o s.suggestions
    IN  ValidationResult(is_valid(errors, warnings, suggestions), a.ret, m.ret,
                         f.ret, c.ret, errors, warnings, suggestions)

\* validate_workflow, the workflow parsed
ValidateWorkflow ==
    /\ vpc = "start"
    /\ file = "ok"
    /\ \E agent_order \in Orderings(missing_agents(workflow.stages, registry)),
          mcp_order \in Orderings(required_mcps(workflow.stages) \ available_mcps) :
            validation' = validate(workflow, agent_order, mcp_order)
    /\ vpc' = "done"
    /\ UNCHANGED <<inputVars, notValVars>>

\* validate_workflow, parse_suggested raised
ValidateParseFailure ==
    /\ vpc = "start"
    /\ file # "ok"
    /\ validation' = ParseFailureResult(<<>>, <<>>, <<>>)
    /\ vpc' = "done"
    /\ UNCHANGED <<inputVars, notValVars>>

----------------------------------------------------------------------------
\* The workflows given to the validator

AgentNames == {"AgentA", "AgentB", "AgentC"}

\* the stage numbers a dependency token may carry; "Stage 9" names no stage
TokenIds == (1..MaxValStages) \cup {9}

RECURSIVE DepSeq(_)
\* the dependency tokens "Stage k" for the numbers k of D, in increasing order
DepSeq(D) ==
    IF D = {} THEN <<>>
    ELSE LET m == CHOOSE x \in D : \A y \in D : x <= y
         IN  <<StageName(m)>> \o DepSeq(D \ {m})

\* the dependencies lists a stage may have
DepOptions == { DepSeq(D) : D \in SUBSET TokenIds }

\* the recommended_agents lists a stage may have
AgentOptions ==
    {<<>>} \cup { <<a>> : a \in AgentNames }
           \cup { <<a, b>> : a \in AgentNames, b \in AgentNames }

RECURSIVE Assignments(_, _, _)
\* the sequences of n lists taken from Options with at most `budget`
\* entries in all
Assignments(n, budget, Options) ==
    IF n = 0 THEN {<<>>}
    ELSE UNION {
        LET rest == Assignments(n - 1, budget - len, Options)
        IN  { Append(w, o) : w \in rest, o \in {x \in Options : Len(x) = len} }
        : len \in 0..budget }

\* workflows of n stages that have dependencies only, with or without a
\* Goal section
DepWorkflows(n) ==
    { WorkflowDefinition(
        [i \in 1..n |-> [PlainStage EXCEPT !.dependencies = deps[i]]],
        goal, <<>>, FALSE, -1) :
      deps \in Assignments(n, MaxDeps, DepOptions), goal \in BOOLEAN }

\* workflows of n stages that have recommended agents only
AgentWorkflows(n) ==
    { WorkflowDefinition(
        [i \in 1..n |-> [PlainStage EXCEPT !.recommended_agents = ags[i]]],
        TRUE, <<>>, FALSE, -1) :
      ags \in Assignments(n, MaxAgentRefs, AgentOptions) }

\* one call of validate_workflow
InitValidate ==
    /\ \/ /\ file = "ok"
          /\ \E n \in 0..MaxValStages : workflow \in DepWorkflows(n)
          /\ registry = {}
          /\ verified_agents = {}
       \/ /\ file = "ok"
          /\ \E n \in 1..MaxAgentStages : workflow \in AgentWorkflows(n)
          /\ registry \in SUBSET AgentNames
          /\ verified_agents \in {registry, {}}
       \/ /\ file \in {"missing", "malformed"}
          /\ workflow = WorkflowDefinition(<<>>, FALSE, <<>>, FALSE, -1)
          /\ registry = {}
          /\ verified_agents = {}
    /\ client_dir_exists = FALSE
    /\ dry_run = FALSE
    /\ error_handling = "retry"
    /\ max_retries = 3
    /\ ExecInit
    /\ ValInit
    /\ OtherInit

NextValidate ==
    \/ ValidateWorkflow
    \/ ValidateParseFailure

SpecValidate == InitValidate /\ [][NextValidate]_vars

----------------------------------------------------------------------------
\* Validation of dependency graphs: parse_suggested reads the Stages section
\* stage by stage, then the checks run on the stages read.

\* the dependencies lists of a stage of a dependency graph: references to
\* stage positions, before or after its own
GraphDepOptions == { DepSeq(D) : D \in SUBSET (1..MaxGraphStages) }

RECURSIVE TotalDeps(_, _)
\* the number of dependency tokens of the first n stages
TotalDeps(stages, n) ==
    IF n = 0 THEN 0
    ELSE TotalDeps(stages, n - 1) + Len(stages[n].dependencies)

\* _parse_stages: a stage header and its Dependencies line are read and the
\* stage is appended to stages
ParseStage ==
    /\ vpc = "start"
    /\ Len(workflow.stages) < MaxGraphStages
    /\ \E deps \in GraphDepOptions :
        /\ TotalDeps(workflow.stages, Len(workflow.stages)) + Len(deps)
              <= MaxGraphDeps
        /\ workflow' = [workflow EXCEPT !.stages =
              Append(@, [PlainStage EXCEPT !.dependencies = deps])]
    /\ UNCHANGED <<file, dry_run, error_handling, max_retries, registry,
                   verified_agents, client_dir_exists, execVars, valVars,
                   otherVars>>

InitCycle ==
    /\ file = "ok"
    /\ workflow = WorkflowDefinition(<<>>, TRUE, <<>>, FALSE, -1)
    /\ registry = {}
    /\ verified_agents = {}
    /\ client_dir_exists = FALSE
    /\ dry_run = FALSE
    /\ error_handling = "retry"
    /\ max_retries = 3
    /\ ExecInit
    /\ ValInit
    /\ OtherInit

NextCycle ==
    \/ ParseStage
    \/ ValidateWorkflow

SpecCycle == InitCycle /\ [][NextCycle]_vars

----------------------------------------------------------------------------
\* Validation of workflows whose stages share agents: the stages carry both
\* recommended agents and dependencies, and every agent is in the registry.

ConflictDepOptions == { DepSeq(D) : D \in SUBSET (1..MaxConflictStages) }

ConflictAgentOptions == {<<>>, <<"AgentA">>, <<"AgentB">>}

\* _parse_stages: a stage header, its Dependencies line and its Recommended
\* Agents line are read and the stage is appended to stages
ParseAgentStage ==
    /\ vpc = "start"
    /\ Len(workflow.stages) < MaxConflictStages
    /\ \E deps \in ConflictDepOptions, agents \in ConflictAgentOptions :
        /\ TotalDeps(workflow.stages, Len(workflow.stages)) + Len(deps)
              <= MaxConflictDeps
        /\ workflow' = [workflow EXCEPT !.stages =
              Append(@, [PlainStage EXCEPT !.dependencies = deps,
                                           !.recommended_agents = agents])]
    /\ UNCHANGED <<file, dry_run, error_handling, max_retries, registry,
                   verified_agents, client_dir_exists, execVars, valVars,
                   otherVars>>

InitConflicts ==
    /\ file = "ok"
    /\ workflow = WorkflowDefinition(<<>>, TRUE, <<>>, FALSE, -1)
    /\ registry = {"AgentA", "AgentB"}
    /\ verified_agents = registry
    /\ client_dir_exists = FALSE
    /\ dry_run = FALSE
    /\ error_handling = "retry"
    /\ max_retries = 3
    /\ ExecInit
    /\ ValInit
    /\ OtherInit

NextConflicts ==
    \/ ParseAgentStage
    \/ ValidateWorkflow

SpecConflicts == InitConflicts /\ [][NextConflicts]_vars

----------------------------------------------------------------------------
\* WorkflowSystem: create, validate, execute and archive move <name>.md
\* through suggested/, active/ and archive/.

\* what a workflow file may hold: a workflow that validates, one that does
\* not (no stages), and bytes parse_suggested cannot read
Docs == {"valid", "invalid", "malformed"}

\* parse_suggested on a file that parses
Document(doc) ==
    IF doc = "valid"
    THEN WorkflowDefinition(<<PlainStage>>, TRUE, <<>>, FALSE, -1)
    ELSE WorkflowDefinition(<<>>, TRUE, <<>>, FALSE, -1)

\* a copy: the file stays in the directory it came from
MoveCopy(fs, n, from, to) == [fs EXCEPT ![to][n] = fs[from][n]]

\* Path.rename: <from>/<n>.md becomes <to>/<n>.md
Move(fs, n, from, to) ==
    [fs EXCEPT ![to][n] = fs[from][n], ![from][n] = "absent"]

\* a file of suggested/ counts as active too
IsActiveOrSuggested(fs, n) ==
    fs["active"][n] # "absent" \/ fs["suggested"][n] # "absent"

\* active_path.exists()
IsActive(fs, n) == fs["active"][n] # "absent"

\* the record of a WorkflowSystem operation: what it was called with, what
\* the directories held when it was called, what it did, and what the user
\* answered if it asked whether to archive
Operation(kind, n, returned, ret, invoked, valid, raised) ==
    [kind |-> kind, name |-> n, returned |-> returned, ret |-> ret,
     invoked |-> invoked, is_valid |-> valid, raised |-> raised,
     prompt |-> "none", before |-> files]

\* create_workflow: False without a draft or when parsing or the interview
\* raise; else the suggested file is written
CreateWorkflow(n) ==
    /\ spc = "idle"
    /\ \E draft_exists \in BOOLEAN, outcome \in {"written", "raised"},
          doc \in Docs :
        IF draft_exists /\ outcome = "written"
        THEN /\ files' = [files EXCEPT !["suggested"][n] = doc]
             /\ last_op' = Operation("create", n, TRUE, TRUE, FALSE, FALSE,
                                     FALSE)
        ELSE /\ UNCHANGED files
             /\ last_op' = Operation("create", n, TRUE, FALSE, FALSE, FALSE,
                                     draft_exists)
    /\ UNCHANGED <<inputVars, execVars, valVars, config_saved, parseVars, runVars, dryVars, spc,
                   validated>>

\* WorkflowSystem.validate_workflow
SystemValidate(n) ==
    /\ spc = "idle"
    /\ IF files["suggested"][n] = "absent"
       THEN /\ last_op' = Operation("validate", n, TRUE, FALSE, FALSE, FALSE,
                                    FALSE)
            /\ UNCHANGED <<files, validated, valVars>>
       ELSE \E rename_raises \in BOOLEAN :
            LET doc == files["suggested"][n]
                wf == Document(doc)
                v == IF doc = "malformed"
                     THEN ParseFailureResult(<<>>, <<>>, <<>>)
                     ELSE validate(wf, <<>>, <<>>)
                moved == v.is_valid /\ ~rename_raises
            IN  /\ validation' = v
                /\ vpc' = "done"
                /\ files' = IF moved
                            THEN Move(files, n, "suggested", "active")
                            ELSE files
                /\ validated' = IF moved THEN validated \cup {n}
                                ELSE validated
                /\ last_op' = Operation("validate", n, TRUE, moved, FALSE,
                                        v.is_valid,
                                        v.is_valid /\ rename_raises)
    /\ UNCHANGED <<inputVars, execVars, config_saved, parseVars, runVars, dryVars, spc>>

\* WorkflowSystem.execute_workflow up to the call of the executor: False at
\* once when the name is not in active/, else executor.execute_workflow is
\* called on the active file
SystemExecute(n) ==
    /\ spc = "idle"
    /\ IF ~IsActive(files, n)
       THEN /\ last_op' = Operation("execute", n, TRUE, FALSE, FALSE, FALSE,
                                    FALSE)
            /\ UNCHANGED <<inputVars, execVars, config_saved, parseVars, runVars, dryVars, spc>>
       ELSE \E dry \in BOOLEAN :
            LET doc == IF files["active"][n] = "absent"
                       THEN files["suggested"][n] ELSE files["active"][n]
                wf == Document(doc)
            IN  /\ last_op' = Operation("execute", n, FALSE, FALSE, TRUE,
                                        FALSE, FALSE)
                /\ spc' = "executing"
                /\ workflow' = wf
                /\ file' = IF doc = "malformed" THEN "malformed" ELSE "ok"
                /\ dry_run' = dry
                /\ pc' = "start"
                /\ cur' = 1
                /\ attempt' = 0
                /\ in_retry' = FALSE
                /\ stages_completed' = 0
                /\ partial_results' = FALSE
                /\ output_dir' = "None"
                /\ dir_created' = FALSE
                /\ result' = NoResult
                /\ status' = [i \in 1..Len(wf.stages) |-> "PENDING"]
                /\ attempts' = [i \in 1..Len(wf.stages) |-> 0]
                /\ terminal' = {}
                /\ counted' = {}
                /\ artifacts' = <<>>
                /\ delays' = <<>>
                /\ summary' = NoSummary
                /\ config_saved' = FALSE
                /\ parallel' = {}
                /\ UNCHANGED <<error_handling, max_retries, registry,
                               verified_agents, client_dir_exists, previous,
                               parseVars, runVars>>
    /\ UNCHANGED <<files, validated, valVars>>

\* the user is asked whether to archive after a successful dry run too
SystemExecuteReturnAsksAfterDryRun ==
    /\ spc = "executing"
    /\ pc \in {"done", "raised"}
    /\ LET n == last_op.name
           done(ret, raised) ==
               [last_op EXCEPT !.returned = TRUE, !.ret = ret,
                               !.raised = raised]
       IN  IF pc = "raised"
           THEN /\ last_op' = done(FALSE, TRUE)
                /\ UNCHANGED <<files, validated>>
           ELSE IF ~result.success
           THEN /\ last_op' = done(FALSE, FALSE)
                /\ UNCHANGED <<files, validated>>
           ELSE \E choice \in {"yes", "no", "eof"}, rename_raises \in BOOLEAN :
                IF choice = "yes" /\ IsActive(files, n) /\ ~rename_raises
                THEN /\ files' = Move(files, n, "active", "archive")
                     /\ validated' = validated \ {n}
                     /\ last_op' = [done(TRUE, FALSE) EXCEPT !.prompt = choice]
                ELSE /\ last_op' = [done(choice # "eof", choice = "eof")
                                       EXCEPT !.prompt = choice]
                     /\ UNCHANGED <<files, validated>>
    /\ spc' = "idle"
    /\ UNCHANGED <<inputVars, execVars, valVars, config_saved, parseVars, runVars, dryVars>>

\* WorkflowSystem.execute_workflow after the executor returned or raised:
\* after a successful real run the user is asked whether to archive
SystemExecuteReturn ==
    /\ spc = "executing"
    /\ pc \in {"done", "raised"}
    /\ LET n == last_op.name
           done(ret, raised) ==
               [last_op EXCEPT !.returned = TRUE, !.ret = ret,
                               !.raised = raised]
       IN  IF pc = "raised"
           THEN /\ last_op' = done(FALSE, TRUE)
                /\ UNCHANGED <<files, validated>>
           ELSE IF ~result.success
           THEN /\ last_op' = done(FALSE, FALSE)
                /\ UNCHANGED <<files, validated>>
           ELSE IF dry_run
           THEN /\ last_op' = done(TRUE, FALSE)
                /\ UNCHANGED <<files, validated>>
           ELSE \E choice \in {"yes", "no", "eof"}, rename_raises \in BOOLEAN :
                IF choice = "yes" /\ IsActive(files, n) /\ ~rename_raises
                THEN /\ files' = Move(files, n, "active", "archive")
                     /\ validated' = validated \ {n}
                     /\ last_op' = [done(TRUE, FALSE) EXCEPT !.prompt = choice]
                ELSE /\ last_op' = [done(choice # "eof", choice = "eof")
                                       EXCEPT !.prompt = choice]
                     /\ UNCHANGED <<files, validated>>
    /\ spc' = "idle"
    /\ UNCHANGED <<inputVars, execVars, valVars, config_saved, parseVars, runVars, dryVars>>

\* archive_workflow
SystemArchive(n) ==
    /\ spc = "idle"
    /\ \E rename_raises \in BOOLEAN :
        IF IsActive(files, n) /\ ~rename_raises
        THEN /\ files' = Move(files, n, "active", "archive")
             /\ validated' = validated \ {n}
             /\ last_op' = Operation("archive", n, TRUE, TRUE, FALSE, FALSE,
                                     FALSE)
        ELSE /\ last_op' = Operation("archive", n, TRUE, FALSE, FALSE, FALSE,
                                     IsActive(files, n))
             /\ UNCHANGED <<files, validated>>
    /\ UNCHANGED <<inputVars, execVars, valVars, config_saved, parseVars, runVars, dryVars, spc>>

\* a WorkflowSystem with empty lifecycle directories; the executor is not
\* running
InitSystem ==
    /\ workflow = Document("valid")
    /\ file = "ok"
    /\ dry_run = FALSE
    /\ error_handling = "retry"
    /\ max_retries = 1
    /\ registry = {}
    /\ verified_agents = {}
    /\ client_dir_exists = FALSE
    /\ pc = "idle"
    /\ cur = 1
    /\ attempt = 0
    /\ in_retry = FALSE
    /\ stages_completed = 0
    /\ partial_results = FALSE
    /\ output_dir = "None"
    /\ dir_created = FALSE
    /\ result = NoResult
    /\ status = [i \in 1..TotalStages |-> "PENDING"]
    /\ attempts = [i \in 1..TotalStages |-> 0]
    /\ terminal = {}
    /\ counted = {}
    /\ artifacts = <<>>
    /\ delays = <<>>
    /\ summary = NoSummary
    /\ ValInit
    /\ OtherInit

NextSystem ==
    \/ \E n \in Names : CreateWorkflow(n)
    \/ \E n \in Names : SystemValidate(n)
    \/ \E n \in Names : SystemExecute(n)
    \/ SystemExecuteReturn
    \/ \E n \in Names : SystemArchive(n)
    \/ ParseSuggested
    \/ PerformDryRun
    \/ CreateOutputDirectory
    \/ SaveWorkflowConfig
    \/ ArchiveInputFiles
    \/ StartStage
    \/ StageSucceeds
    \/ StageFails
    \/ Backoff
    \/ RetryRun
    \/ SaveStageResults
    \/ GenerateFinalReports
    \/ Return

SpecSystem == InitSystem /\ [][NextSystem]_vars

----------------------------------------------------------------------------
\* Real runs of workflows whose stages declare dependencies, on stages before
\* or after them.

MaxOrderStages == 3
MaxOrderDeps == 2

\* workflows of n stages whose dependencies name stages of the workflow
OrderedWorkflows(n) ==
    { WorkflowDefinition(
        [i \in 1..n |-> [PlainStage EXCEPT !.dependencies = deps[i]]],
        TRUE, <<>>, FALSE, -1) :
      deps \in Assignments(n, MaxOrderDeps,
                           { DepSeq(D) : D \in SUBSET (1..n) }) }

InitDependencies ==
    /\ \E n \in 1..MaxOrderStages : workflow \in OrderedWorkflows(n)
    /\ file = "ok"
    /\ dry_run = FALSE
    /\ error_handling \in Policies
    /\ max_retries \in 0..1
    /\ registry = {}
    /\ verified_agents = {}
    /\ client_dir_exists = FALSE
    /\ ExecInit
    /\ ValInit
    /\ OtherInit

NextDependencies ==
    \/ ParseSuggested
    \/ CreateOutputDirectory
    \/ SaveWorkflowConfig
    \/ ArchiveInputFiles
    \/ StartStage
    \/ StageSucceeds
    \/ StageFails
    \/ Backoff
    \/ RetryRun
    \/ SaveStageResults
    \/ GenerateFinalReports
    \/ Return

SpecDependencies == InitDependencies /\ [][NextDependencies]_vars

----------------------------------------------------------------------------
\* Validation of workflows with inputs, a client, a time estimate, and
\* stages that share an agent and an MCP.

MaxFindingStages == 2

\* an entry of the Inputs section
Input(name, required, in_inputs, exists) ==
    [name |-> name, required |-> required, in_inputs |-> in_inputs,
     exists |-> exists]

\* the Inputs sections: none; a file under inputs/ that exists; one that is
\* absent, its name with or without 'required'; a location outside inputs/
FindingInputs ==
    { <<>>,
      <<Input("data", FALSE, TRUE, TRUE)>>,
      <<Input("required_data", TRUE, TRUE, FALSE)>>,
      <<Input("data", FALSE, TRUE, FALSE)>>,
      <<Input("url", FALSE, FALSE, FALSE)>>,
      <<Input("required_data", TRUE, TRUE, FALSE),
        Input("data", FALSE, TRUE, FALSE)>> }

\* the stages: with or without AgentA, with or without the fetch MCP, no
\* dependency, a dependency on Stage 1, or one on a stage that is not there
FindingStages ==
    [dependencies : {<<>>, <<"Stage 1">>, <<"Stage 9">>},
     recommended_agents : {<<>>, <<"AgentA">>},
     suggested_mcps : {<<>>, <<"fetch">>},
     description : {{}}]

\* **Estimated Duration**: absent, 480 minutes, 481 minutes
FindingTimes == {-1, 480, 481}

InitFindings ==
    /\ file = "ok"
    /\ \E n \in 0..MaxFindingStages :
        \E stages \in [1..n -> FindingStages], inputs \in FindingInputs,
           client_slug \in BOOLEAN, time \in FindingTimes :
            workflow = WorkflowDefinition(stages, TRUE, inputs, client_slug,
                                          time)
    /\ registry = {"AgentA"}
    /\ verified_agents = registry
    /\ client_dir_exists \in BOOLEAN
    /\ dry_run = FALSE
    /\ error_handling = "retry"
    /\ max_retries = 3
    /\ ExecInit
    /\ ValInit
    /\ OtherInit

NextFindings == ValidateWorkflow

SpecFindings == InitFindings /\ [][NextFindings]_vars

----------------------------------------------------------------------------
\* WorkflowParser: parse_draft and parse_suggested on a file and, for a
\* draft, its companion inputs/workflow-config.json.

MaxLines == 4
MaxDocTokens == 2
MaxParameters == 2

\* the comma-separated pieces of the text of a Dependencies line, with the
\* blanks around them
Tokens == {"Stage 1", " Stage 2 ", "", "none", "NONE"}

\* str.strip()
Strip(text) == IF text = " Stage 2 " THEN "Stage 2" ELSE text

\* the comma-separated pieces of the text of a Recommended Agents line
AgentTokens == {"AgentA", "AgentB (backup)", ""}

\* the texts after '- ' of a line that starts with it
DashItems == {"AgentA", "AgentB (backup)"}

\* re.split(r'[\(\-]', agent)[0].strip()
agent_name(text) == IF text = "AgentB (backup)" THEN "AgentB" ELSE text

\* the lines of the Stages section: a line matching '### Stage <N>: <name>',
\* a '**Dependencies**:' line whose text splits on ',' into tokens, a
\* '**Recommended Agents**:' line whose text splits on ',' into tokens, a
\* '**Success Criteria**:' line without text, a line '- <item>', and any
\* other line (a header without a number or a name is one of them)
Header == [kind |-> "header", tokens |-> <<>>]
OtherLine == [kind |-> "other", tokens |-> <<>>]
DependenciesLine(tokens) == [kind |-> "dependencies", tokens |-> tokens]
AgentsLine(tokens) == [kind |-> "agents", tokens |-> tokens]
SuccessCriteriaLine == [kind |-> "success_criteria", tokens |-> <<>>]
DashLine(item) == [kind |-> "dash", tokens |-> <<item>>]

\* the lines that carry k tokens
LinesWith(k) ==
    IF k = 0
    THEN {Header, OtherLine, SuccessCriteriaLine, AgentsLine(<<>>)}
    ELSE { DependenciesLine(tokens) : tokens \in [1..k -> Tokens] }
            \cup { AgentsLine(tokens) : tokens \in [1..k -> AgentTokens] }
            \cup (IF k = 1 THEN { DashLine(item) : item \in DashItems }
                  ELSE {})

\* WorkflowStage(...) of a stage header: every list empty
WorkflowStage ==
    [dependencies |-> <<>>, recommended_agents |-> <<>>,
     suggested_mcps |-> <<>>, description |-> {}, success_criteria |-> <<>>]

RECURSIVE TokensOf(_, _)
\* the number of tokens of the first n lines
TokensOf(lines, n) ==
    IF n = 0 THEN 0 ELSE TokensOf(lines, n - 1) + Len(lines[n].tokens)

\* what ast.literal_eval does with the value of a parameter line: it returns
\* a value, raises ValueError or SyntaxError (not a literal), or raises
\* TypeError (a dict or set display with an unhashable member)
ParameterValues == {"literal", "not_literal", "unhashable"}

\* what inputs/workflow-config.json holds
Configs ==
    {"absent", "not_utf8", "invalid_json", "null", "object", "list",
     "number", "variables_not_object", "client_settings_not_object"}

\* the Parameters sections: one value per parameter line
ParameterSections ==
    UNION { [1..n -> ParameterValues] : n \in 0..MaxParameters }

\* the file at file_path: does it exist, which method is called on it, and
\* the lines of its Stages section that _parse_stages has read
SourceFile(exists, method, lines) ==
    [exists |-> exists, method |-> method, lines |-> lines]

\* _load_config_if_exists: the exception that leaves it, or "None".
\* json.load raises UnicodeDecodeError for bytes that are not UTF-8, which
\* is neither json.JSONDecodeError nor IOError
load_config_raises(config) ==
    IF config = "not_utf8" THEN "UnicodeDecodeError" ELSE "None"

\* config_data is truthy: if config_data:
config_applies(config) ==
    config \in {"object", "list", "number", "variables_not_object",
                "client_settings_not_object"}

\* _apply_config_to_workflow: the exception that leaves it, or "None"
apply_config_raises(config) ==
    IF config = "number" THEN "TypeError"
    ELSE IF config = "variables_not_object" THEN "AttributeError"
    ELSE IF config = "client_settings_not_object" THEN "TypeError"
    ELSE "None"

\* open(file_path, encoding='utf-8').read()
read_raises(utf8) == IF utf8 THEN "None" ELSE "UnicodeDecodeError"

\* the first of the exceptions that is not "None"
FirstRaised(errors) ==
    IF \A k \in 1..Len(errors) : errors[k] = "None" THEN "None"
    ELSE errors[CHOOSE k \in 1..Len(errors) :
                    /\ errors[k] # "None"
                    /\ \A j \in 1..(k - 1) : errors[j] = "None"]

\* try: ast.literal_eval(actual_value) except (ValueError, SyntaxError):
\* the exception that is not caught, or "None"
literal_eval_escapes(value) ==
    IF value = "unhashable" THEN "TypeError" ELSE "None"

\* _parse_parameters: the exception that leaves it, or "None"
parse_parameters_raises(parameters) ==
    FirstRaised([k \in 1..Len(parameters) |->
                    literal_eval_escapes(parameters[k])])

\* parse_draft, from the existence check to the return; the file is UTF-8
\* or not, and the companion config holds one of Configs
ParseDraft ==
    /\ ppc = "start"
    /\ source.method = "draft"
    /\ \E utf8 \in BOOLEAN, config \in Configs :
        LET raised ==
                IF ~source.exists THEN "FileNotFoundError"
                ELSE FirstRaised(<<load_config_raises(config),
                                   read_raises(utf8),
                                   IF config_applies(config)
                                   THEN apply_config_raises(config)
                                   ELSE "None">>)
        IN  /\ parse_error' = raised
            /\ ppc' = IF raised = "None" THEN "done" ELSE "raised"
    /\ UNCHANGED <<inputVars, execVars, valVars, config_saved, dryVars,
                   sysVars, runVars, source, line_no, current_stage, parsed_stages>>

\* parse_suggested, from the existence check to the call of _parse_stages;
\* the file is UTF-8 or not, and has one of ParameterSections
OpenSuggested ==
    /\ ppc = "start"
    /\ source.method = "suggested"
    /\ \E utf8 \in BOOLEAN, parameters \in ParameterSections :
        LET raised ==
                IF ~source.exists THEN "FileNotFoundError"
                ELSE FirstRaised(<<read_raises(utf8),
                                   parse_parameters_raises(parameters)>>)
        IN  /\ parse_error' = raised
            /\ ppc' = IF raised = "None" THEN "stages" ELSE "raised"
    /\ UNCHANGED <<inputVars, execVars, valVars, config_saved, dryVars,
                   sysVars, runVars, source, line_no, current_stage, parsed_stages>>

RECURSIVE strip_tokens(_, _)
\* [d.strip() for d in deps_text.split(',') if d.strip()], from token k
strip_tokens(tokens, k) ==
    IF k > Len(tokens) THEN <<>>
    ELSE (IF Strip(tokens[k]) # "" THEN <<Strip(tokens[k])>> ELSE <<>>)
             \o strip_tokens(tokens, k + 1)

\* the dependencies a Dependencies line gives: deps_text is the stripped
\* text, which is 'none' in some letter case only if it is one token
parse_dependencies(tokens) ==
    IF Len(tokens) = 1 /\ Lower(Strip(tokens[1])) = "none" THEN <<>>
    ELSE strip_tokens(tokens, 1)

RECURSIVE parse_agent_list(_, _)
\* _parse_agent_list on the text of one line (no newline in it: the
\* comma-separated format), from token k
parse_agent_list(tokens, k) ==
    IF k > Len(tokens) THEN <<>>
    ELSE (IF Strip(tokens[k]) # "" /\ agent_name(Strip(tokens[k])) # ""
          THEN <<agent_name(Strip(tokens[k]))>> ELSE <<>>)
             \o parse_agent_list(tokens, k + 1)

\* the elif chain of _parse_stages on a line that is not a stage header,
\* current_stage being set
parse_stage_attribute(stage, line) ==
    IF line.kind = "dependencies"
    THEN [stage EXCEPT !.dependencies = parse_dependencies(line.tokens)]
    ELSE IF line.kind = "agents"
    THEN [stage EXCEPT !.recommended_agents =
                           parse_agent_list(line.tokens, 1)]
    ELSE IF line.kind = "success_criteria"
    THEN [stage EXCEPT !.success_criteria = Append(@, "")]
    ELSE IF line.kind = "dash" /\ stage.success_criteria # <<>>
    THEN [stage EXCEPT !.success_criteria = Append(@, Strip(line.tokens[1]))]
    ELSE stage

\* the stage being read when the text ends is forgotten
FinishStagesDropLast(stages, current) == stages

\* if current_stage: stages.append(current_stage)
FinishStages(stages, current) ==
    IF current # <<>> THEN Append(stages, current[1]) ELSE stages

\* _parse_stages: one iteration of for line in lines, on the next line of
\* the text
ParseStagesLine ==
    /\ ppc = "stages"
    /\ Len(source.lines) < MaxLines
    /\ \E k \in 0..(MaxDocTokens - TokensOf(source.lines, Len(source.lines))) :
        \E line \in LinesWith(k) :
            /\ source' = [source EXCEPT !.lines = Append(@, line)]
            /\ IF line.kind = "header"
               THEN /\ parsed_stages' =
                          FinishStages(parsed_stages, current_stage)
                    /\ current_stage' = <<WorkflowStage>>
               ELSE IF current_stage # <<>>
               THEN /\ current_stage' =
                          <<parse_stage_attribute(current_stage[1], line)>>
                    /\ UNCHANGED parsed_stages
               ELSE UNCHANGED <<current_stage, parsed_stages>>
    /\ line_no' = line_no + 1
    /\ UNCHANGED <<inputVars, execVars, valVars, config_saved, dryVars,
                   sysVars, runVars, ppc, parse_error>>

\* _parse_stages after the last line of the text, and the return of
\* parse_suggested
ParseStagesEnd ==
    /\ ppc = "stages"
    /\ line_no > Len(source.lines)
    /\ parsed_stages' = FinishStages(parsed_stages, current_stage)
    /\ ppc' = "done"
    /\ UNCHANGED <<inputVars, execVars, valVars, config_saved, dryVars,
                   sysVars, runVars, source, line_no, current_stage, parse_error>>

InitParse ==
    /\ source \in { SourceFile(exists, method, <<>>) :
                       exists \in BOOLEAN, method \in {"draft", "suggested"} }
    /\ ppc = "start"
    /\ ParserInit
    /\ workflow = WorkflowDefinition(<<>>, TRUE, <<>>, FALSE, -1)
    /\ file = "ok"
    /\ dry_run = FALSE
    /\ error_handling = "retry"
    /\ max_retries = 3
    /\ registry = {}
    /\ verified_agents = {}
    /\ client_dir_exists = FALSE
    /\ ExecInit
    /\ ValInit
    /\ SystemInit
    /\ RunnerInit

NextParse ==
    \/ ParseDraft
    \/ OpenSuggested
    \/ ParseStagesLine
    \/ ParseStagesEnd

SpecParse == InitParse /\ [][NextParse]_vars

----------------------------------------------------------------------------
\* WorkflowRunner: execute_workflow_step on one step and
\* execute_with_todo_tracking on a list of steps. A handler or a command
\* function returns its output or raises an exception of class Exception.

MaxSteps == 3

\* the agents of the steps (a handler may be registered for AgentA) and
\* their commands: commands/project_setup.py exists and has execute();
\* there is no commands/missing.py; commands/no_entry.py has neither
\* execute() nor main(); commands/broken.py raises when it is loaded
StepAgents == {"AgentA", "AgentB"}
Commands == {"project_setup", "missing", "no_entry", "broken"}

Step(agent, command) == [agent |-> agent, command |-> command]

StepLists ==
    UNION { [1..n -> { Step(a, c) : a \in StepAgents, c \in Commands }] :
            n \in 0..MaxSteps }

\* step.get("id", f"{agent_name}_{command}") of a step without id
step_id(step) == <<step.agent, step.command>>

\* WorkflowContext
WorkflowContext(current_agent, ctx_results, todo_list) ==
    [current_agent |-> current_agent, results |-> ctx_results,
     todo_list |-> todo_list]

\* what a call of a handler or of _execute_command does: the exception it
\* raises ("None": it returns), its output, and the command cache it leaves
Outcome(raised, output, cache) ==
    [raised |-> raised, output |-> output, cache |-> cache]

\* self.agent_handlers[agent_name](command, context, step_config)
call_handler(step, cache, raises) ==
    IF raises THEN Outcome("Exception", "None", cache)
    ELSE Outcome("None", <<"handled", step.command>>, cache)

\* _execute_command
execute_command(step, cache, raises) ==
    LET command == step.command
    IN  IF command = "missing"
        THEN Outcome("FileNotFoundError", "None", cache)
        ELSE IF command = "broken"
        THEN Outcome("SyntaxError", "None", cache)
        ELSE IF command = "no_entry"
        THEN Outcome("AttributeError", "None", cache \cup {command})
        ELSE IF raises
        THEN Outcome("ValueError", "None", cache \cup {command})
        ELSE Outcome("None", <<"output", command>>, cache \cup {command})

\* the body of the try of execute_workflow_step
run_step(step, handlers, cache, raises) ==
    IF step.agent \in handlers THEN call_handler(step, cache, raises)
    ELSE execute_command(step, cache, raises)

\* the result dictionary when execute_workflow_step enters its try
RunningResult(step) ==
    [step_id |-> step_id(step), agent |-> step.agent,
     command |-> step.command, status |-> "running", output |-> "None",
     error |-> "None"]

\* the result dictionary when execute_workflow_step returns
finished_result(res, outcome) ==
    IF outcome.raised = "None"
    THEN [res EXCEPT !.status = "completed", !.output = outcome.output]
    ELSE [res EXCEPT !.status = "failed", !.error = outcome.raised]

\* the output is stored whether or not the step raised
store_outputAlways(ctx_results, res, outcome) ==
    DictSet(ctx_results, res.step_id, outcome.output)

\* context.results[result["step_id"]] = output, reached only without an
\* exception
store_output(ctx_results, res, outcome) ==
    IF outcome.raised = "None"
    THEN DictSet(ctx_results, res.step_id, outcome.output)
    ELSE ctx_results

\* create_todo_integration
create_todo_integration(steps) ==
    [k \in 1..Len(steps) |->
        [status |-> "pending", agent |-> steps[k].agent,
         command |-> steps[k].command, error |-> "None"]]

\* a todo whose step failed stays in_progress
update_todoFailedStaysInProgress(todo, res) ==
    IF res.status = "completed" THEN [todo EXCEPT !.status = "completed"]
    ELSE todo

\* the todo of a step after the step returned
update_todo(todo, res) ==
    IF res.status = "completed" THEN [todo EXCEPT !.status = "completed"]
    ELSE IF res.status = "failed"
    THEN [todo EXCEPT !.status = "pending", !.error = res.error]
    ELSE todo

\* execute_with_todo_tracking up to its loop
CreateTodos ==
    /\ rpc = "start"
    /\ call = "execute_with_todo_tracking"
    /\ results' = <<>>
    /\ context' = [context EXCEPT
                      !.todo_list = create_todo_integration(workflow_steps)]
    /\ rpc' = IF Len(workflow_steps) = 0 THEN "done" ELSE "loop"
    /\ UNCHANGED <<inputVars, execVars, valVars, config_saved, dryVars,
                   sysVars, parseVars, call, workflow_steps, agent_handlers,
                   command_cache, step_index, step_result>>

\* todos[i]["status"] = "in_progress"
MarkInProgress ==
    /\ rpc = "loop"
    /\ context' = [context EXCEPT
                      !.todo_list[step_index].status = "in_progress"]
    /\ rpc' = "call"
    /\ UNCHANGED <<inputVars, execVars, valVars, config_saved, dryVars,
                   sysVars, parseVars, call, workflow_steps, agent_handlers,
                   command_cache, step_index, step_result, results>>

\* execute_workflow_step up to its try, called on its own or by the loop
BeginStep ==
    /\ \/ rpc = "call"
       \/ rpc = "start" /\ call = "execute_workflow_step"
    /\ step_result' = RunningResult(workflow_steps[step_index])
    /\ rpc' = "try"
    /\ UNCHANGED <<inputVars, execVars, valVars, config_saved, dryVars,
                   sysVars, parseVars, call, workflow_steps, agent_handlers,
                   command_cache, step_index, results, context>>

\* execute_workflow_step from its try to its return
FinishStep ==
    /\ rpc = "try"
    /\ \E raises \in BOOLEAN :
        LET step == workflow_steps[step_index]
            outcome == run_step(step, agent_handlers, command_cache, raises)
        IN  /\ step_result' = finished_result(step_result, outcome)
            /\ context' = [context EXCEPT
                  !.current_agent = step.agent,
                  !.results = store_output(@, step_result, outcome)]
            /\ command_cache' = outcome.cache
    /\ rpc' = IF call = "execute_workflow_step" THEN "done" ELSE "returned"
    /\ UNCHANGED <<inputVars, execVars, valVars, config_saved, dryVars,
                   sysVars, parseVars, call, workflow_steps, agent_handlers,
                   step_index, results>>

\* the loop of execute_with_todo_tracking after execute_workflow_step
\* returned: the result is appended and the todo updated; after the last
\* step the results are returned
UpdateTodo ==
    /\ rpc = "returned"
    /\ results' = Append(results, step_result)
    /\ context' = [context EXCEPT !.todo_list[step_index] =
                      update_todo(@, step_result)]
    /\ IF step_index < Len(workflow_steps)
       THEN step_index' = step_index + 1 /\ rpc' = "loop"
       ELSE step_index' = step_index /\ rpc' = "done"
    /\ UNCHANGED <<inputVars, execVars, valVars, config_saved, dryVars,
                   sysVars, parseVars, call, workflow_steps, agent_handlers,
                   command_cache, step_result>>

\* a runner for a template, a handler registered for AgentA or none, and a
\* context that holds no result or the result of an earlier step; a single
\* step is the first of workflow_steps
InitRunner ==
    /\ call \in {"execute_workflow_step", "execute_with_todo_tracking"}
    /\ workflow_steps \in StepLists
    /\ call = "execute_workflow_step" => Len(workflow_steps) = 1
    /\ agent_handlers \in {{}, {"AgentA"}}
    /\ command_cache = {}
    /\ rpc = "start"
    /\ step_index = 1
    /\ step_result = NoResult
    /\ results = <<>>
    /\ context \in
          { WorkflowContext("None", r, <<>>) :
              r \in { <<>>,
                      DictSet(<<>>, step_id(Step("AgentB", "project_setup")),
                              <<"output", "earlier">>) } }
    /\ workflow = WorkflowDefinition(<<>>, TRUE, <<>>, FALSE, -1)
    /\ file = "ok"
    /\ dry_run = FALSE
    /\ error_handling = "retry"
    /\ max_retries = 3
    /\ registry = {}
    /\ verified_agents = {}
    /\ client_dir_exists = FALSE
    /\ ExecInit
    /\ ValInit
    /\ SystemInit
    /\ source = NoSource
    /\ ppc = "idle"
    /\ ParserInit

NextRunner ==
    \/ CreateTodos
    \/ MarkInProgress
    \/ BeginStep
    \/ FinishStep
    \/ UpdateTodo

SpecRunner == InitRunner /\ [][NextRunner]_vars

----------------------------------------------------------------------------
\* Properties of the validator

Validated == vpc = "done" /\ file = "ok"

\* the number of entries of a message list that equal m
CountMsg(msgs, m) == Cardinality({ k \in 1..Len(msgs) : msgs[k] = m })

\* the number of entries of a message list of a kind
CountKind(msgs, kind) == Cardinality({ k \in 1..Len(msgs) : msgs[k].kind = kind })

\* the successors of a node in the dependency graph: the dependency tokens
\* of the stage it names (none for a token that names no stage)
Successors(stages, node) ==
    UNION { Range(stages[i].dependencies) :
            i \in { j \in 1..Len(stages) : StageName(j) = node } }

RECURSIVE ReachableFrom(_, _, _)
\* the nodes reachable from `frontier` by zero or more edges
ReachableFrom(stages, frontier, seen) ==
    IF frontier \subseteq seen THEN seen
    ELSE ReachableFrom(stages,
                       UNION { Successors(stages, x) : x \in frontier },
                       seen \cup frontier)

\* the dependency graph has a directed cycle: some stage is reachable from
\* itself by one or more edges
HasDirectedCycle(stages) ==
    \E i \in 1..Len(stages) :
        StageName(i) \in
            ReachableFrom(stages, Successors(stages, StageName(i)), {})

Occurrences(deps, token) == Cardinality({ k \in 1..Len(deps) : deps[k] = token })

\* a token is "Stage k" for some 1 <= k <= number of stages
MatchesStage(stages, token) == \E k \in 1..Len(stages) : token = StageName(k)

AllTokens == { StageName(t) : t \in TokenIds }

IsMissingAgent(a) ==
    /\ a \notin registry
    /\ \E i \in 1..Len(workflow.stages) :
          \E k \in 1..Len(workflow.stages[i].recommended_agents) :
              workflow.stages[i].recommended_agents[k] = a

C11_ValidIffNoErrors ==
    vpc = "done" =>
        /\ validation.returned
        /\ validation.is_valid = (Len(validation.errors) = 0)

\* a result with warnings, no error, and is_valid true
C11_Witness ==
    /\ Validated
    /\ Len(validation.warnings) > 0
    /\ validation.errors = <<>>
    /\ validation.is_valid

\* C12: validate_workflow always returns a result; for a workflow that does
\* not parse the result has exactly one error and every boolean false.
C12_ParseFailureResult ==
    /\ vpc \in {"start", "done"}
    /\ vpc = "done" => validation.returned
    /\ (vpc = "done" /\ file # "ok") =>
          /\ Len(validation.errors) = 1
          /\ validation.errors[1].kind = "parse_failed"
          /\ ~validation.is_valid
          /\ ~validation.agents_available
          /\ ~validation.mcps_available
          /\ ~validation.input_files_valid
          /\ ~validation.no_conflicts

C12_Witness ==
    /\ vpc = "done"
    /\ file = "missing"
    /\ validation.errors = <<Msg("parse_failed", "", 0)>>
    /\ ~validation.is_valid

\* stages i < j both list agent a and stage j does not declare "Stage i"
SharedUndeclared(i, j, a) ==
    /\ i < j
    /\ a \in Range(workflow.stages[i].recommended_agents)
    /\ a \in Range(workflow.stages[j].recommended_agents)
    /\ StageName(i) \notin Range(workflow.stages[j].dependencies)

\* C13: for every pair of stages i < j that list the same agent, stage j not
\* declaring "Stage i" among its dependencies, validation emits a
\* double-booking warning for that agent.
C13_DoubleBookingEveryPair ==
    Validated =>
        \A i \in 1..Len(workflow.stages), j \in 1..Len(workflow.stages) :
            \A a \in AgentNames :
                SharedUndeclared(i, j, a) =>
                    CountMsg(validation.warnings,
                             Msg("agent_conflict", a, 0)) >= 1

\* C14: in a 2-stage workflow whose Stage 2 declares "Stage 1", an agent
\* both stages use gets no double-booking warning; when "Stage 1" is the
\* only dependency and every agent is in the registry there is no error and
\* is_valid is true.
C14_DependentReuseNoWarning ==
    (Validated /\ Len(workflow.stages) = 2
       /\ "Stage 1" \in Range(workflow.stages[2].dependencies)) =>
        /\ \A a \in Range(workflow.stages[1].recommended_agents)
                    \cap Range(workflow.stages[2].recommended_agents) :
              CountMsg(validation.warnings, Msg("agent_conflict", a, 0)) = 0
        /\ (/\ workflow.stages[1].dependencies = <<>>
            /\ workflow.stages[2].dependencies = <<"Stage 1">>
            /\ required_agents(workflow.stages) \subseteq registry) =>
              /\ validation.errors = <<>>
              /\ validation.is_valid

\* both stages use AgentA, Stage 2 depends on Stage 1, AgentA is registered
C14_Witness ==
    /\ Validated
    /\ "AgentA" \in registry
    /\ Len(workflow.stages) = 2
    /\ workflow.stages[1].recommended_agents = <<"AgentA">>
    /\ workflow.stages[1].dependencies = <<>>
    /\ workflow.stages[2].recommended_agents = <<"AgentA">>
    /\ workflow.stages[2].dependencies = <<"Stage 1">>
    /\ validation.warnings = <<>>
    /\ validation.errors = <<>>
    /\ validation.is_valid

\* C15: a workflow whose goal is empty or whose stages list is empty gets a
\* structural error, so is_valid is false.
C15_EmptyGoalOrStagesIsError ==
    (Validated /\ (~workflow.goal \/ Len(workflow.stages) = 0)) =>
        /\ ~validation.is_valid
        /\ \E k \in 1..Len(validation.errors) :
              validation.errors[k].kind \in {"no_stages", "goal_not_defined"}

\* C18: a dry run creates no output directory, writes no configuration,
\* artifact or summary file, executes no stage and sleeps for no retry, and
\* its result has stages_completed = 0, total_stages = the number of stages,
\* no output directory and partial_results = false.
C18_DryRunNoSideEffects ==
    dry_run =>
        /\ ~dir_created
        /\ output_dir = "None"
        /\ ~config_saved
        /\ artifacts = <<>>
        /\ summary = NoSummary
        /\ delays = <<>>
        /\ \A i \in StageSet : attempts[i] = 0 /\ status[i] = "PENDING"
        /\ pc = "done" =>
              /\ result.stages_completed = 0
              /\ result.total_stages = TotalStages
              /\ result.output_directory = "None"
              /\ ~result.partial_results

C18_Witness ==
    /\ dry_run
    /\ pc = "done"
    /\ TotalStages = 3
    /\ result.success
    /\ result.total_stages = 3

\* the per-stage estimate as claimed, in half minutes: 5 minutes, plus 2
\* for more than 1 agent, plus 3 for more than 2 MCPs, times 1.5 for
\* "comprehensive", else times 0.5 for "quick", in any letter case
ClaimedStageEstimate(stage) ==
    LET minutes == 5 + (IF Len(stage.recommended_agents) > 1 THEN 2 ELSE 0)
                     + (IF Len(stage.suggested_mcps) > 2 THEN 3 ELSE 0)
        comprehensive == stage.description
                           \cap {"comprehensive", "Comprehensive",
                                 "COMPREHENSIVE"} # {}
        quick == stage.description \cap {"quick", "Quick", "QUICK"} # {}
    IN  IF comprehensive THEN (minutes * 15) \div 5
        ELSE IF quick THEN (minutes * 5) \div 5
        ELSE (minutes * 10) \div 5

RECURSIVE ClaimedTotal(_, _)
ClaimedTotal(stages, n) ==
    IF n = 0 THEN 0
    ELSE ClaimedTotal(stages, n - 1) + ClaimedStageEstimate(stages[n])

\* C19: the estimated_time of a dry run is the sum over the stages of the
\* per-stage estimate (5 min, +2 for more than 1 agent, +3 for more than 2
\* MCPs, x1.5 for "comprehensive", else x0.5 for "quick"), 0 for no stages.
C19_DryRunEstimate ==
    (dry_run /\ pc = "done") =>
        /\ result.estimated_time = ClaimedTotal(workflow.stages, TotalStages)
        /\ TotalStages = 0 => result.estimated_time = 0

\* (5+2+3) x 1.5 = 15 minutes for the first stage, 5 x 0.5 for the second
C19_Witness ==
    /\ dry_run
    /\ pc = "done"
    /\ TotalStages = 2
    /\ Len(workflow.stages[1].recommended_agents) = 2
    /\ Len(workflow.stages[1].suggested_mcps) = 3
    /\ workflow.stages[1].description = {"Comprehensive", "QUICK"}
    /\ Len(workflow.stages[2].recommended_agents) = 1
    /\ Len(workflow.stages[2].suggested_mcps) = 2
    /\ workflow.stages[2].description = {"quick"}
    /\ result.estimated_time = 35

Untouched == files = last_op.before

\* C16: WorkflowSystem.validate_workflow returns True exactly when it moved
\* the file; it moves it only when validation returned is_valid = true, and
\* then the file is in active/ and no longer in suggested/; after a failed
\* validation or an exception every directory is as it was.
C16_MovedIffValid ==
    last_op.kind = "validate" =>
        LET n == last_op.name
            b == last_op.before
        IN  /\ last_op.ret => last_op.is_valid
            /\ (last_op.is_valid /\ ~last_op.raised) => last_op.ret
            /\ IF last_op.ret
               THEN /\ b["suggested"][n] # "absent"
                    /\ files["active"][n] = b["suggested"][n]
                    /\ files["suggested"][n] = "absent"
                    /\ files["archive"] = b["archive"]
                    /\ \A m \in Names \ {n} :
                          /\ files["active"][m] = b["active"][m]
                          /\ files["suggested"][m] = b["suggested"][m]
               ELSE Untouched

C16_Witness ==
    /\ last_op.kind = "validate"
    /\ last_op.name = "w1"
    /\ last_op.ret
    /\ last_op.before["suggested"]["w1"] = "valid"
    /\ files["active"]["w1"] = "valid"
    /\ files["suggested"]["w1"] = "absent"

\* C17: the executor runs for a name only if a validation of that name
\* succeeded and the name was not archived since; a name is in active/ only
\* under the same condition; execute_workflow on a name that is not in
\* active/ returns False without calling the executor.
C17_ExecuteOnlyValidated ==
    /\ spc = "executing" => last_op.name \in validated
    /\ \A n \in Names : IsActive(files, n) => n \in validated
    /\ (last_op.kind = "execute"
          /\ last_op.before["active"][last_op.name] = "absent") =>
          /\ last_op.returned
          /\ ~last_op.ret
          /\ ~last_op.invoked
          /\ spc = "idle"

\* w1 was created, validated, executed and archived, created and validated
\* again, and a stage of its second execution is running
C17_Witness ==
    /\ spc = "executing"
    /\ last_op.name = "w1"
    /\ "w1" \in validated
    /\ files["archive"]["w1"] = "valid"
    /\ files["active"]["w1"] = "valid"
    /\ pc = "running"
    /\ status[1] = "RUNNING"

\* C21: in a real run the stage artifacts are written in increasing stage
\* order; when the summary is written, every stage of the run is resolved
\* (completed, given up on, or left out by a policy-driven stop after a stage
\* that failed for good), every completed stage has its artifact, and no
\* stage artifact is written after the summary.
C21_ArtifactsThenSummary ==
    ~dry_run =>
        /\ \A k \in 1..(Len(artifacts) - 1) : artifacts[k] < artifacts[k + 1]
        /\ summary.written =>
              /\ pc \in {"return", "done"}
              /\ summary.after_artifacts = Len(artifacts)
              /\ \A i \in StageSet :
                    \/ status[i] = "COMPLETED" /\ i \in Range(artifacts)
                    \/ status[i] = "FAILED" /\ i \in terminal
                    \/ /\ status[i] = "PENDING"
                       /\ error_handling \in {"stop", "retry"}
                       /\ \E k \in terminal : k < i

\* under continue, stage 2 failed; the summary came after artifacts 1 and 3
C21_Witness ==
    /\ ~dry_run
    /\ pc = "done"
    /\ TotalStages = 3
    /\ artifacts = <<1, 3>>
    /\ summary.written
    /\ summary.after_artifacts = 2
    /\ terminal = {2}

\* the status changes of a stage
StatusTransitions ==
    { <<"PENDING", "RUNNING">>, <<"RUNNING", "COMPLETED">>,
      <<"RUNNING", "FAILED">>, <<"FAILED", "RETRYING">>,
      <<"RETRYING", "RUNNING">> }

\* C25: a stage's status changes only along PENDING -> RUNNING,
\* RUNNING -> COMPLETED, RUNNING -> FAILED, FAILED -> RETRYING and
\* RETRYING -> RUNNING; RETRYING is entered only under policy retry with
\* fewer than max_retries retries of the stage made; under stop and continue
\* no stage is attempted twice; a COMPLETED stage is not attempted again.
C25_StatusTransitions ==
    [][\A i \in StageSet :
          /\ status'[i] # status[i] =>
                /\ <<status[i], status'[i]>> \in StatusTransitions
                /\ status'[i] = "RETRYING" =>
                      /\ error_handling = "retry"
                      /\ attempts[i] - 1 < max_retries
          /\ attempts'[i] # attempts[i] =>
                /\ status[i] # "COMPLETED"
                /\ error_handling \in {"stop", "continue"} => attempts[i] = 0]_vars

\* the third retry of stage 1 is about to run, after which stage 1 completes
C25_Witness ==
    /\ error_handling = "retry"
    /\ max_retries = 3
    /\ TotalStages = 2
    /\ status[1] = "COMPLETED"
    /\ attempts[1] = 4
    /\ status[2] = "RETRYING"
    /\ attempts[2] = 1

RECURSIVE Doubling(_, _)
\* first, 2*first, 4*first, ...: n delays
Doubling(first, n) ==
    IF n = 0 THEN <<>> ELSE <<first>> \o Doubling(2 * first, n - 1)

\* the retries of stage i that were started or are being waited for
RetriesOf(i) ==
    (IF attempts[i] > 0 THEN attempts[i] - 1 ELSE 0)
        + (IF pc = "retry_run" /\ cur = i THEN 1 ELSE 0)

\* C26: the delays waited are, stage after stage, retry_delay, twice that,
\* four times that, ...: one delay for each retry attempt of the stage and
\* none for its initial attempt; no stage has more than max_retries of them.
C26_BackoffDoubles ==
    ~dry_run =>
        /\ delays = Concat([i \in StageSet |->
                              Doubling(retry_delay, RetriesOf(i))], TotalStages)
        /\ \A i \in StageSet : RetriesOf(i) <= max_retries

\* 5, 10, 20 seconds before the three retries of stage 1
C26_Witness ==
    /\ error_handling = "retry"
    /\ max_retries = 3
    /\ TotalStages = 1
    /\ attempts[1] = 4
    /\ delays = <<5, 10, 20>>
    /\ pc = "done"

\* an exception was caught by execute_workflow or _perform_execution
Raised == pc = "done" /\ result.error_message # "None"

\* stage i failed at first and succeeded on a retry
RetrySucceeded(i) == attempts[i] > 1 /\ status[i] = "COMPLETED"

\* C27 (as claimed): under retry, a stage that succeeded on a retry is not
\* attempted again, is counted once, has its artifact saved, the run goes on
\* with the next stage, and a run whose stages all succeeded in the end
\* returns success = true and partial_results = false.
C27_RetrySuccessAlwaysSaved ==
    (error_handling = "retry" /\ ~dry_run) =>
        /\ stages_completed = Cardinality(counted)
        /\ \A i \in StageSet : RetrySucceeded(i) =>
              /\ i \in counted
              /\ i \notin terminal
              /\ pc \in {"running", "backoff", "retry_run"} => cur # i
              /\ (pc # "save" \/ cur # i) =>
                    /\ i \in Range(artifacts)
                    /\ i < TotalStages => cur > i
        /\ (/\ RealRunReturned
            /\ \E i \in StageSet : RetrySucceeded(i)
            /\ \A i \in StageSet : status[i] = "COMPLETED") =>
              /\ result.success
              /\ ~result.partial_results

\* C27 (amended): as above when writing the artifact and the final report
\* raise nothing; when one of them raises, the run ends there with
\* success = false and partial_results = true.
C27_RetrySuccessUnlessRaised ==
    (error_handling = "retry" /\ ~dry_run) =>
        /\ stages_completed = Cardinality(counted)
        /\ \A i \in StageSet : RetrySucceeded(i) =>
              /\ i \in counted
              /\ i \notin terminal
              /\ pc \in {"running", "backoff", "retry_run"} => cur # i
              /\ (pc # "save" \/ cur # i) =>
                    \/ /\ i \in Range(artifacts)
                       /\ i < TotalStages => cur > i
                    \/ Raised /\ cur = i
        /\ (/\ RealRunReturned
            /\ \E i \in StageSet : RetrySucceeded(i)
            /\ \A i \in StageSet : status[i] = "COMPLETED") =>
              IF result.error_message = "None"
              THEN result.success /\ ~result.partial_results
              ELSE ~result.success /\ result.partial_results

\* stage 1 succeeded on its second retry, stage 2 at once
C27_Witness ==
    /\ error_handling = "retry"
    /\ NormalPath
    /\ TotalStages = 2
    /\ attempts[1] = 3
    /\ attempts[2] = 1
    /\ artifacts = <<1, 2>>
    /\ result.success
    /\ ~result.partial_results
    /\ result.stages_completed = 2

\* C28: under retry, a stage still failing after max_retries retries ends
\* the run: no later stage is attempted, stages_completed counts the stages
\* before it (all of which succeeded), and the result has
\* partial_results = true and success = false.
C28_RetryExhaustedEndsRun ==
    (error_handling = "retry" /\ ~dry_run) =>
        \A k \in terminal :
            /\ attempts[k] = max_retries + 1
            /\ \A j \in StageSet : j > k => attempts[j] = 0
            /\ \A j \in StageSet : j < k => status[j] = "COMPLETED"
            /\ stages_completed = k - 1
            /\ pc \in {"final", "return", "done"}
            /\ RealRunReturned =>
                  /\ result.stages_completed = k - 1
                  /\ result.partial_results
                  /\ ~result.success

C28_Witness ==
    /\ error_handling = "retry"
    /\ max_retries = 2
    /\ TotalStages = 3
    /\ terminal = {2}
    /\ attempts[2] = 3
    /\ attempts[3] = 0
    /\ RealRunReturned
    /\ result.stages_completed = 1
    /\ result.partial_results

\* C22: in a real run no stage is attempted before every stage named in its
\* dependencies has completed.
C22_DependenciesHonored ==
    ~dry_run =>
        \A i \in StageSet : attempts[i] > 0 =>
            \A j \in StageSet :
                StageName(j) \in Range(workflow.stages[i].dependencies) =>
                    status[j] = "COMPLETED"

\* C29: a dry run reports as parallel-eligible exactly the stages whose
\* dependencies list is empty, whatever their position.
C29_ParallelIsNoDependencies ==
    (dry_run /\ pc = "done") =>
        parallel = { i \in StageSet : workflow.stages[i].dependencies = <<>> }

\* the message kinds of reuse, absent inputs and an excessive estimate
SoftKinds ==
    {"agent_conflict", "make_stages_sequential", "mcp_rate_limit",
     "client_dir_missing", "create_client_dir", "input_not_found",
     "optional_input_not_found", "create_input_or_fallback",
     "time_excessive", "break_workflow_up"}

\* the workflow has stages, every agent and MCP it names is available,
\* every dependency names a stage and the dependencies have no cycle
NothingElseWrong ==
    /\ Len(workflow.stages) > 0
    /\ required_agents(workflow.stages) \subseteq registry
    /\ required_mcps(workflow.stages) \subseteq available_mcps
    /\ \A i \in 1..Len(workflow.stages) :
          Range(workflow.stages[i].dependencies)
              \subseteq { StageName(j) : j \in 1..Len(workflow.stages) }
    /\ ~HasDirectedCycle(workflow.stages)

C23_RaisesIffMissing ==
    /\ ppc = "raised" =>
          ~source.exists /\ parse_error = "FileNotFoundError"
    /\ (ppc \in {"stages", "done"}) => source.exists

\* the positions of the stage headers of the Stages section
HeaderPositions == { p \in 1..Len(source.lines) : source.lines[p].kind = "header" }

\* the n-th stage header
HeaderAt(n) ==
    CHOOSE p \in HeaderPositions :
        Cardinality({ q \in HeaderPositions : q < p }) = n - 1

\* the Dependencies lines between header p and the next header
DependenciesLinesOf(p) ==
    { q \in (p + 1)..Len(source.lines) :
        /\ source.lines[q].kind = "dependencies"
        /\ \A h \in HeaderPositions : ~(p < h /\ h < q) }

\* every stage header is followed by one Dependencies line
EachStageHasDependenciesLine ==
    \A p \in HeaderPositions : Cardinality(DependenciesLinesOf(p)) = 1

\* the tokens of the source, trimmed, the blank ones left out; none for the
\* single word "none" in any letter case
SourceDependencies(tokens) ==
    IF Len(tokens) = 1 /\ Strip(tokens[1]) \in {"none", "None", "NONE"}
    THEN <<>>
    ELSE LET trimmed == [k \in 1..Len(tokens) |-> Strip(tokens[k])]
         IN  SelectSeq(trimmed, LAMBDA t : t # "")

\* C24: parse_suggested on a Stages section with N stage headers, each
\* followed by a Dependencies line, returns N stages, in document order,
\* the dependencies of each being the tokens of its line in order ("none"
\* in any letter case: no dependency).
C24_StagesRoundTrip ==
    (ppc = "done" /\ source.method = "suggested"
       /\ EachStageHasDependenciesLine) =>
        /\ Len(parsed_stages) = Cardinality(HeaderPositions)
        /\ \A n \in 1..Cardinality(HeaderPositions) :
              LET q == CHOOSE x \in DependenciesLinesOf(HeaderAt(n)) : TRUE
              IN  parsed_stages[n].dependencies
                      = SourceDependencies(source.lines[q].tokens)

\* two stages: "NONE" for the first, " Stage 2 " for the second
C24_Witness ==
    /\ ppc = "done"
    /\ source.method = "suggested"
    /\ source.lines = <<Header, DependenciesLine(<<"NONE">>),
                        Header, DependenciesLine(<<" Stage 2 ">>)>>
    /\ Len(parsed_stages) = 2
    /\ parsed_stages[1].dependencies = <<>>
    /\ parsed_stages[2].dependencies = <<"Stage 2">>

\* stages i < j both list MCP m and no stage between them does
SharedMcp(i, j, m) ==
    /\ i < j
    /\ m \in Range(workflow.stages[i].suggested_mcps)
    /\ m \in Range(workflow.stages[j].suggested_mcps)
    /\ \A k \in (i + 1)..(j - 1) :
          m \notin Range(workflow.stages[k].suggested_mcps)

\* C31: an MCP name used by two stages gets a rate-limit warning only when
\* the later stage does not declare a dependency on the earlier one: the
\* rate-limit warnings for an MCP are as many as the later stages that reuse
\* it without declaring the stage that used it before.
C31_McpRuleDependencyAware ==
    Validated =>
        \A m \in {"fetch"} :
            CountMsg(validation.warnings, Msg("mcp_rate_limit", m, 0))
                = Cardinality(
                    { j \in 1..Len(workflow.stages) :
                        \E i \in 1..Len(workflow.stages) :
                            /\ SharedMcp(i, j, m)
                            /\ StageName(i) \notin
                                  Range(workflow.stages[j].dependencies) })

\* the number of stage files written for stage i
ArtifactsOf(i) ==
    Cardinality({ k \in 1..Len(artifacts) : artifacts[k] = i })

\* C32: in a real run that returned without an exception, every resolved
\* stage, completed or failed for good, has exactly one stage artifact.
C32_ArtifactPerResolvedStage ==
    NormalPath =>
        \A i \in StageSet :
            status[i] \in {"COMPLETED", "FAILED"} => ArtifactsOf(i) = 1

\* C33: once the stages of a real run have resolved and the run returned
\* without an exception, the summary artifact has been written, whatever the
\* number of stages that completed.
C33_SummaryAlwaysWritten ==
    NormalPath => summary.written

\* C37: the summary artifact records as stages_completed the
\* stages_completed of the ExecutionResult the run returns.
C37_SummaryCountsCompleted ==
    (NormalPath /\ summary.written) =>
        summary.stages_completed = result.stages_completed

\* a step that changes stages_completed adds one, for the stage the loop is
\* at, which was not counted before and whose attempt has just succeeded
CountedOnce ==
    stages_completed' # stages_completed =>
        /\ stages_completed' = stages_completed + 1
        /\ cur \notin counted
        /\ counted' = counted \cup {cur}
        /\ status[cur] = "RUNNING"
        /\ status'[cur] = "COMPLETED"

\* C38: in a real run stages_completed never decreases, is incremented at
\* most once per stage and only when an attempt of that stage succeeded,
\* never exceeds total_stages, and the ExecutionResult reports the value
\* reached when the run ended.
C38_StagesCompletedCounts ==
    /\ [](~dry_run =>
            /\ stages_completed = Cardinality(counted)
            /\ counted \subseteq { i \in StageSet : status[i] = "COMPLETED" }
            /\ stages_completed <= TotalStages
            /\ RealRunReturned =>
                  result.stages_completed = stages_completed)
    /\ [][stages_completed' >= stages_completed /\ CountedOnce]_vars

\* under retry stage 1 succeeded on its second attempt and stage 2 was given
\* up on: the result reports 1 of 2
C38_Witness ==
    /\ RealRunReturned
    /\ error_handling = "retry"
    /\ TotalStages = 2
    /\ attempts[1] = 2
    /\ counted = {1}
    /\ terminal = {2}
    /\ stages_completed = 1
    /\ result.stages_completed = 1
    /\ result.total_stages = 2

\* a step of WorkflowSystem.execute_workflow: its entry, a step of the
\* executor it called, or its return
InExecute ==
    \/ spc = "executing"
    \/ spc' = "executing"
    \/ last_op' # last_op /\ last_op'.kind = "execute"

\* C35: a step of WorkflowSystem.execute_workflow changes the lifecycle
\* directories only by moving the executed file from active/ to archive/,
\* after a real run returned success = true and the user accepted the archive
\* prompt (so a dry run, a failed run or an exception leave the file in
\* active/); and the executor is invoked only for a name that is in active/,
\* which an archived name is not.
C35_ArchiveOnlyAfterSuccess ==
    /\ [][(InExecute /\ files' # files) =>
            /\ pc = "done"
            /\ ~dry_run
            /\ result.success
            /\ last_op'.prompt = "yes"
            /\ ~last_op'.raised
            /\ IsActive(files, last_op.name)
            /\ files' = Move(files, last_op.name, "active", "archive")
            /\ ~IsActive(files', last_op.name)]_vars
    /\ [](last_op.kind = "execute" =>
            (last_op.invoked = IsActive(last_op.before, last_op.name)))

\* w1 was executed for real with success, the user answered yes, and the
\* file is in archive/ and no longer in active/
C35_Witness ==
    /\ spc = "idle"
    /\ last_op.kind = "execute"
    /\ last_op.name = "w1"
    /\ last_op.returned
    /\ last_op.ret
    /\ last_op.prompt = "yes"
    /\ ~dry_run
    /\ result.success
    /\ last_op.before["active"]["w1"] = "valid"
    /\ files["active"]["w1"] = "absent"
    /\ files["archive"]["w1"] = "valid"

\* the lines of the block of the stage header at p: up to the next header
BlockOf(p) ==
    { q \in (p + 1)..Len(source.lines) :
        \A h \in HeaderPositions : ~(p < h /\ h < q) }

\* the dash lines that follow line q directly
ContinuationOf(q) ==
    { r \in (q + 1)..Len(source.lines) :
        \A x \in (q + 1)..r : source.lines[x].kind = "dash" }

RECURSIVE ItemsOf(_, _)
\* the items of the n dash lines after line q, in order
ItemsOf(q, n) ==
    IF n = 0 THEN <<>>
    ELSE Append(ItemsOf(q, n - 1), source.lines[q + n].tokens[1])

\* C34: in a stage block with one Recommended Agents label line, the dash
\* items that follow the label directly are collected into the stage's
\* recommended_agents, which is the list the comma-separated form of the
\* same names on the label line gives.
C34_DashItemsAreAgents ==
    (ppc = "done" /\ source.method = "suggested") =>
        \A n \in 1..Cardinality(HeaderPositions) :
            \A q \in BlockOf(HeaderAt(n)) :
                (/\ source.lines[q].kind = "agents"
                 /\ \A x \in BlockOf(HeaderAt(n)) :
                        source.lines[x].kind = "agents" => x = q) =>
                    parsed_stages[n].recommended_agents =
                        parse_agent_list(
                            source.lines[q].tokens
                               \o ItemsOf(q, Cardinality(ContinuationOf(q))),
                            1)

\* C36: in the ValidationResult of a workflow that parsed, no_conflicts is
\* false when validation emitted an agent double-booking warning and true
\* when it emitted none.
C36_NoConflictsReflectsWarnings ==
    Validated =>
        (validation.no_conflicts
            = (CountKind(validation.warnings, "agent_conflict") = 0))

----------------------------------------------------------------------------
\* Properties of the runner

\* the step execute_workflow_step is called on
CurrentStep == workflow_steps[step_index]

\* what the return of execute_workflow_step leaves
StepReturns ==
    /\ rpc' \in {"done", "returned"}
    /\ step_result'.status \in {"completed", "failed"}
    /\ step_result'.step_id = step_id(CurrentStep)
    /\ step_result'.status = "completed" =>
          /\ step_result'.output # "None"
          /\ step_result'.step_id \in DOMAIN context'.results
          /\ context'.results[step_result'.step_id] = step_result'.output
    /\ step_result'.status = "failed" =>
          /\ step_result'.error # "None"
          /\ context'.results = context.results
    /\ (CurrentStep.agent \notin agent_handlers
          /\ CurrentStep.command = "project_setup"
          /\ step_result'.status = "failed") =>
             step_result'.error = "ValueError"

\* C39: execute_workflow_step returns, with status "completed" and the
\* output stored in context.results[step_id], or with status "failed", an
\* error and context.results unchanged; the status returned is never
\* "running"; a step whose command module exists and has its entry function
\* fails only with the error that function raised.
C39_StepNeverRaises ==
    /\ [][rpc = "try" => StepReturns]_vars
    /\ [](rpc \in {"done", "returned"} /\ call = "execute_workflow_step" =>
             step_result.status \in {"completed", "failed"})

\* project_setup for AgentA, no handler registered, an earlier result in the
\* context: completed, and both results are in context.results
C39_Witness ==
    /\ call = "execute_workflow_step"
    /\ rpc = "done"
    /\ agent_handlers = {}
    /\ workflow_steps = <<Step("AgentA", "project_setup")>>
    /\ step_result.status = "completed"
    /\ step_result.output = <<"output", "project_setup">>
    /\ DOMAIN context.results =
          {<<"AgentA", "project_setup">>, <<"AgentB", "project_setup">>}
    /\ context.results[<<"AgentA", "project_setup">>]
          = <<"output", "project_setup">>

\* the todos that are in_progress
InProgress ==
    { k \in 1..Len(context.todo_list) :
        context.todo_list[k].status = "in_progress" }

\* C40: execute_with_todo_tracking appends one result per step, in list
\* order, whatever the results before it; at most one todo is in_progress at
\* any time; on return there is one result per step and each todo is
\* completed if its step completed, or pending with the error recorded if
\* its step failed.
C40_TodoTracking ==
    call = "execute_with_todo_tracking" =>
        /\ Cardinality(InProgress) <= 1
        /\ Len(results) <= Len(workflow_steps)
        /\ \A k \in 1..Len(results) :
              /\ results[k].step_id = step_id(workflow_steps[k])
              /\ results[k].status \in {"completed", "failed"}
        /\ rpc \in {"loop", "call", "try", "returned"} =>
              Len(results) = step_index - 1
        /\ rpc = "done" =>
              /\ Len(results) = Len(workflow_steps)
              /\ Len(context.todo_list) = Len(workflow_steps)
              /\ InProgress = {}
              /\ \A k \in 1..Len(results) :
                    LET todo == context.todo_list[k]
                    IN  IF results[k].status = "completed"
                        THEN todo.status = "completed" /\ todo.error = "None"
                        ELSE /\ todo.status = "pending"
                             /\ todo.error = results[k].error
                             /\ todo.error # "None"

\* the first step failed, the second completed, the third failed
C40_Witness ==
    /\ call = "execute_with_todo_tracking"
    /\ rpc = "done"
    /\ Len(workflow_steps) = 3
    /\ Len(results) = 3
    /\ results[1].status = "failed"
    /\ results[2].status = "completed"
    /\ results[3].status = "failed"
    /\ context.todo_list[1].status = "pending"
    /\ context.todo_list[1].error = "FileNotFoundError"
    /\ context.todo_list[2].status = "completed"
    /\ context.todo_list[3].status = "pending"

====
